---- MODULE Spec2Model ----
(***************************************************************************)
(* Shadow LED state and effect stack of the UFO MCP server                 *)
(* (internal/state.Manager) together with the tool handlers that drive it  *)
(* (playEffect, stopEffect, configureLighting) and their completion        *)
(* timers.                                                                 *)
(*                                                                         *)
(* A Go pointer result (pointer to EffectStackItem) is a sequence of       *)
(* length at most one: Nil is <<>>, a non-nil result is <<item>>.          *)
(* A Go map[string]interface{} is a TLA+ record whose domain is the set of *)
(* keys present in the map; the empty map is <<>>.                         *)
(***************************************************************************)
EXTENDS Integers, Sequences, FiniteSets, TLC

\* ------------------------------------------------------------------------
\* Program constants
\* ------------------------------------------------------------------------

\* number of LEDs on one ring ([15]string)
RingSize == 15

\* default brightness of a new manager
DefaultDim == 255

\* colour of an LED that is off
Black == "000000"

\* ------------------------------------------------------------------------
\* Bounds of the model
\* ------------------------------------------------------------------------

\* deepest effect stack the clients of the model build
MaxDepth == 4

\* number of pushes the tool calls of one behaviour make
MaxPushes == 2

\* number of tool calls that run concurrently
NumCallers == 2

\* number of committed states recorded for a reader that waits for the lock
MaxSeen == 2

\* number of brightness changes, and of dim-changed events, of one behaviour
MaxDimChanges == 3

\* number of __config__ layers a configureLighting client stacks up
MaxConfigLayers == 1

\* the largest rotation time, brightness time and fade time converted
MaxWhirlMs == 8000
MaxBrightnessMs == 5000
MaxFadeMs == 5000

\* ------------------------------------------------------------------------
\* State
\* ------------------------------------------------------------------------

VARIABLES
    manager,    \* state.Manager: [state, effectStack, baseState]
    lastOp,     \* history: the call an API client completed last, its
                \*   result and the events it published
    unwind,     \* history: the pushes an API client made since the stack was
                \*   last empty and the results of the pops that followed
    ids,        \* history: for each stack entry, the ordinal of the tool push
                \*   that made it (0 for a push made through the API directly)
    layers,     \* history: for each tool push, whether the entry is
                \*   perpetual, whether a timer was started for it, and who
                \*   removed the entry from the stack
    timers,     \* the completion goroutines that are asleep or restoring
    calls,      \* the tool call each caller is executing, with its locals
    device,     \* the query the device received last
    result,     \* the tool call that returned last and what it reported
    mu,         \* Manager.mu: the goroutine that holds the write lock (0 for
                \*   none) and the goroutines that hold the read lock
    dimLog,     \* history: the dim-changed events published and the number of
                \*   UpdateBrightness calls that changed the brightness
    broadcaster, \* events.Broadcaster: the number of events in eventChan,
                \*   for each subscriber the number of events in its channel,
                \*   and the position of the run goroutine
    stackCap    \* cap(m.effectStack): the length of the array behind the
                \*   stack; a longer array is a new array

vars ==
    <<manager, lastOp, unwind, ids, layers, timers, calls, device, result,
      mu, dimLog, broadcaster, stackCap>>

storeVars == <<mu, dimLog, broadcaster, stackCap>>

toolVars == <<ids, layers, timers, calls, device, result, storeVars>>

Nil == <<>>

Last(s) == s[Len(s)]

Front(s) == SubSeq(s, 1, Len(s) - 1)

BlackRing == [i \in 1..RingSize |-> Black]

\* NewManager: all LEDs off, logo off, no effect, full brightness, empty
\* stack, no base state
NewManager ==
    [state |-> [Top |-> BlackRing, Bottom |-> BlackRing, LogoOn |-> FALSE,
                Effect |-> "", Dim |-> DefaultDim,
                TopWhirlMs |-> 0, BottomWhirlMs |-> 0,
                TopMorph |-> Nil, BottomMorph |-> Nil],
     effectStack |-> <<>>,
     baseState |-> ""]

EffectStackItem(name, pattern, context) ==
    [Name |-> name, Pattern |-> pattern, Context |-> context]

\* ------------------------------------------------------------------------
\* Manager operations, as functions of the manager value (each runs under
\* m.mu, so its body is one atomic step)
\* ------------------------------------------------------------------------

UpdateLogo(m, on) == [m EXCEPT !.state.LogoOn = on]

UpdateEffect(m, effectName) == [m EXCEPT !.state.Effect = effectName]

ClearEffect(m) == [m EXCEPT !.state.Effect = ""]

SetActiveEffect(m, effectName) == [m EXCEPT !.state.Effect = effectName]

Reset_ResetsBrightness(m) ==
    [m EXCEPT !.state.Top = BlackRing,
              !.state.Bottom = BlackRing,
              !.state.LogoOn = FALSE,
              !.state.Effect = "",
              !.state.Dim = DefaultDim]

Reset_ClearsStack(m) ==
    [m EXCEPT !.state.Top = BlackRing,
              !.state.Bottom = BlackRing,
              !.state.LogoOn = FALSE,
              !.state.Effect = "",
              !.effectStack = <<>>]

Reset(m) ==
    [m EXCEPT !.state.Top = BlackRing,
              !.state.Bottom = BlackRing,
              !.state.LogoOn = FALSE,
              !.state.Effect = ""]

\* events published by Reset
ResetEvents ==
    << [Type |-> "ring_update", ring |-> "top", reset |-> TRUE],
       [Type |-> "ring_update", ring |-> "bottom", reset |-> TRUE] >>

UpdateBrightness(m, level) ==
    IF m.state.Dim # level THEN [m EXCEPT !.state.Dim = level] ELSE m

UpdateBrightnessEvents_Always(m, level) ==
    << [Type |-> "dim_changed", level |-> level] >>

\* events published by UpdateBrightness on manager m
UpdateBrightnessEvents(m, level) ==
    IF m.state.Dim # level
    THEN << [Type |-> "dim_changed", level |-> level] >>
    ELSE << >>

PushEffect_KeepsEffect(m, name, pattern, context) ==
    [m EXCEPT !.effectStack = Append(@, EffectStackItem(name, pattern, context))]

PushEffect(m, name, pattern, context) ==
    [m EXCEPT !.effectStack = Append(@, EffectStackItem(name, pattern, context)),
              !.state.Effect = name]

SetBaseState(m, pattern) == [m EXCEPT !.baseState = pattern]

GetBaseState(m) == m.baseState

BaseStateItem(pattern) ==
    EffectStackItem("__base_state__", pattern,
                    [synthetic |-> TRUE, isBase |-> TRUE])

\* PopEffect returns the manager after the call (field m) and the result of
\* the call (field ret)
PopEffect_ReturnsRemoved(m) ==
    IF Len(m.effectStack) = 0
    THEN [m |-> [m EXCEPT !.state.Effect = ""], ret |-> Nil]
    ELSE LET rest == Front(m.effectStack) IN
         IF Len(rest) > 0
         THEN [m   |-> [m EXCEPT !.effectStack = rest,
                                 !.state.Effect = Last(rest).Name],
               ret |-> <<Last(m.effectStack)>>]
         ELSE [m   |-> [m EXCEPT !.effectStack = rest, !.state.Effect = ""],
               ret |-> IF m.baseState # ""
                       THEN <<BaseStateItem(m.baseState)>>
                       ELSE Nil]

PopEffect_IgnoresBase(m) ==
    IF Len(m.effectStack) = 0
    THEN [m |-> [m EXCEPT !.state.Effect = ""], ret |-> Nil]
    ELSE LET rest == Front(m.effectStack) IN
         IF Len(rest) > 0
         THEN [m   |-> [m EXCEPT !.effectStack = rest,
                                 !.state.Effect = Last(rest).Name],
               ret |-> <<Last(rest)>>]
         ELSE [m   |-> [m EXCEPT !.effectStack = rest, !.state.Effect = ""],
               ret |-> Nil]

PopEffect_EmptyReturnsBase(m) ==
    IF Len(m.effectStack) = 0
    THEN [m |-> [m EXCEPT !.state.Effect = ""],
          ret |-> IF m.baseState # ""
                  THEN <<BaseStateItem(m.baseState)>>
                  ELSE Nil]
    ELSE LET rest == Front(m.effectStack) IN
         IF Len(rest) > 0
         THEN [m   |-> [m EXCEPT !.effectStack = rest,
                                 !.state.Effect = Last(rest).Name],
               ret |-> <<Last(rest)>>]
         ELSE [m   |-> [m EXCEPT !.effectStack = rest, !.state.Effect = ""],
               ret |-> IF m.baseState # ""
                       THEN <<BaseStateItem(m.baseState)>>
                       ELSE Nil]

IsSynthetic(item) ==
    "synthetic" \in DOMAIN item.Context /\ item.Context.synthetic

RECURSIVE DropSynthetic(_)
DropSynthetic(s) ==
    IF Len(s) > 0 /\ IsSynthetic(Last(s)) THEN DropSynthetic(Front(s)) ELSE s

PopEffect_SkipsSynthetic(m) ==
    IF Len(m.effectStack) = 0
    THEN [m |-> [m EXCEPT !.state.Effect = ""], ret |-> Nil]
    ELSE LET rest == DropSynthetic(Front(m.effectStack)) IN
         IF Len(rest) > 0
         THEN [m   |-> [m EXCEPT !.effectStack = rest,
                                 !.state.Effect = Last(rest).Name],
               ret |-> <<Last(rest)>>]
         ELSE [m   |-> [m EXCEPT !.effectStack = rest, !.state.Effect = ""],
               ret |-> IF m.baseState # ""
                       THEN <<BaseStateItem(m.baseState)>>
                       ELSE Nil]

PopEffect(m) ==
    IF Len(m.effectStack) = 0
    THEN [m |-> [m EXCEPT !.state.Effect = ""], ret |-> Nil]
    ELSE LET rest == Front(m.effectStack) IN
         IF Len(rest) > 0
         THEN [m   |-> [m EXCEPT !.effectStack = rest,
                                 !.state.Effect = Last(rest).Name],
               ret |-> <<Last(rest)>>]
         ELSE [m   |-> [m EXCEPT !.effectStack = rest, !.state.Effect = ""],
               ret |-> IF m.baseState # ""
                       THEN <<BaseStateItem(m.baseState)>>
                       ELSE Nil]

GetCurrentEffect(m) ==
    IF Len(m.effectStack) = 0 THEN Nil ELSE <<Last(m.effectStack)>>

GetEffectStackDepth(m) == Len(m.effectStack)

\* UpdateTopRing / UpdateBottomRing: the first RingSize colours, an empty
\* colour and every slot past the end of colors being black
FullRing(colors) ==
    [i \in 1..RingSize |->
        IF i <= Len(colors) /\ colors[i] # "" THEN colors[i] ELSE Black]

UpdateTopRing(m, colors) == [m EXCEPT !.state.Top = FullRing(colors)]

UpdateBottomRing(m, colors) == [m EXCEPT !.state.Bottom = FullRing(colors)]

UpdateRingSegments_WritesEmpty(m, ring, colors, background) ==
    IF ring \notin {"top", "bottom"} THEN m
    ELSE LET targetRing == IF ring = "top" THEN m.state.Top
                           ELSE m.state.Bottom
             filled == [i \in 1..RingSize |->
                          IF background # "" THEN background
                          ELSE targetRing[i]]
             written == [i \in 1..RingSize |->
                           IF i <= Len(colors)
                           THEN colors[i] ELSE filled[i]]
         IN  IF ring = "top" THEN [m EXCEPT !.state.Top = written]
             ELSE [m EXCEPT !.state.Bottom = written]

UpdateRingSegments_BackgroundWins(m, ring, colors, background) ==
    IF ring \notin {"top", "bottom"} THEN m
    ELSE LET targetRing == IF ring = "top" THEN m.state.Top
                           ELSE m.state.Bottom
             written == [i \in 1..RingSize |->
                           IF background # "" THEN background
                           ELSE IF i <= Len(colors) /\ colors[i] # ""
                           THEN colors[i] ELSE targetRing[i]]
         IN  IF ring = "top" THEN [m EXCEPT !.state.Top = written]
             ELSE [m EXCEPT !.state.Bottom = written]

\* UpdateRingSegments: a ring name other than top and bottom changes
\* nothing; a non-empty background fills the ring first, then the non-empty
\* colours among the first RingSize of colors are written by position
UpdateRingSegments(m, ring, colors, background) ==
    IF ring \notin {"top", "bottom"} THEN m
    ELSE LET targetRing == IF ring = "top" THEN m.state.Top
                           ELSE m.state.Bottom
             filled == [i \in 1..RingSize |->
                          IF background # "" THEN background
                          ELSE targetRing[i]]
             written == [i \in 1..RingSize |->
                           IF i <= Len(colors) /\ colors[i] # ""
                           THEN colors[i] ELSE filled[i]]
         IN  IF ring = "top" THEN [m EXCEPT !.state.Top = written]
             ELSE [m EXCEPT !.state.Bottom = written]

\* Snapshot: a copy of the LedState, field by field
Snapshot(m) ==
    [LogoOn |-> m.state.LogoOn,
     Effect |-> m.state.Effect,
     Dim |-> m.state.Dim,
     TopWhirlMs |-> m.state.TopWhirlMs,
     BottomWhirlMs |-> m.state.BottomWhirlMs,
     Top |-> [i \in 1..RingSize |-> m.state.Top[i]],
     Bottom |-> [i \in 1..RingSize |-> m.state.Bottom[i]],
     TopMorph |-> IF m.state.TopMorph # Nil
                  THEN << [BrightnessMs |-> m.state.TopMorph[1].BrightnessMs,
                           FadeMs |-> m.state.TopMorph[1].FadeMs] >>
                  ELSE Nil,
     BottomMorph |-> IF m.state.BottomMorph # Nil
                     THEN << [BrightnessMs |-> m.state.BottomMorph[1].BrightnessMs,
                              FadeMs |-> m.state.BottomMorph[1].FadeMs] >>
                     ELSE Nil]

UpdateWhirl_UnknownIsBottom(m, ring, whirlMs) ==
    IF ring = "top" THEN [m EXCEPT !.state.TopWhirlMs = whirlMs]
    ELSE [m EXCEPT !.state.BottomWhirlMs = whirlMs]

\* UpdateWhirl: the rotation time of the ring named ring, in milliseconds
UpdateWhirl(m, ring, whirlMs) ==
    IF ring = "top" THEN [m EXCEPT !.state.TopWhirlMs = whirlMs]
    ELSE IF ring = "bottom" THEN [m EXCEPT !.state.BottomWhirlMs = whirlMs]
    ELSE m

\* UpdateMorph: the morph settings of the ring named ring (Nil for nil)
UpdateMorph(m, ring, morph) ==
    IF ring = "top" THEN [m EXCEPT !.state.TopMorph = morph]
    ELSE IF ring = "bottom" THEN [m EXCEPT !.state.BottomMorph = morph]
    ELSE m

\* the event UpdateRingSegments publishes for a ring it knows
RingUpdateEvents(ring, colors, background) ==
    IF ring \notin {"top", "bottom"} THEN <<>>
    ELSE << [Type |-> "ring_update", ring |-> ring, segments |-> colors,
             background |-> background] >>

\* events published by UpdateTopRing / UpdateBottomRing
RingColorsEvents(ring, colors) ==
    << [Type |-> "ring_update", ring |-> ring, colors |-> colors] >>

\* make([]string, 15)
EmptyColors == [i \in 1..RingSize |-> ""]

\* ------------------------------------------------------------------------
\* Unit conversions (package device) and the state query
\* ------------------------------------------------------------------------

\* math.Round(a / b) for b > 0: halves round away from zero
RoundDiv(a, b) ==
    IF a >= 0 THEN (2 * a + b) \div (2 * b)
    ELSE -((2 * (-a) + b) \div (2 * b))

ConvertWhirlToDevice_Truncates(rotationMs) ==
    IF rotationMs <= 0 THEN 0
    ELSE LET fifteenths == 256 * 15 - rotationMs IN
         IF fifteenths < 15 THEN 1
         ELSE IF fifteenths > 510 * 15 THEN 510
         ELSE fifteenths \div 15

\* whirlSpeed = 256 - rotationMs / 15, clamped to [1, 510], then rounded
ConvertWhirlToDevice(rotationMs) ==
    IF rotationMs <= 0 THEN 0
    ELSE LET fifteenths == 256 * 15 - rotationMs IN
         IF fifteenths < 15 THEN 1
         ELSE IF fifteenths > 510 * 15 THEN 510
         ELSE RoundDiv(fifteenths, 15)

ConvertDeviceWhirlToMs(whirlSpeed) ==
    IF whirlSpeed <= 0 THEN 0
    ELSE LET stepDelayMs == 256 - whirlSpeed IN
         (IF stepDelayMs < 1 THEN 1 ELSE stepDelayMs) * 15

ConvertMorphToDevice_NoLowerClamp(config) ==
    IF config = Nil THEN ""
    ELSE LET ticks == RoundDiv(100 * config[1].BrightnessMs, 667)
             raw   == IF config[1].FadeMs > 0
                      THEN RoundDiv(3333, config[1].FadeMs)
                      ELSE -RoundDiv(3333, -config[1].FadeMs)
             speed == IF raw > 10 THEN 10 ELSE raw
         IN  ToString(ticks) \o "|" \o ToString(speed)

\* ticks = round(BrightnessMs / 6.67); speed = round(3333 / FadeMs) clamped
\* to 1..10.  The tools only store a FadeMs in 100..10000.
ConvertMorphToDevice(config) ==
    IF config = Nil THEN ""
    ELSE LET ticks == RoundDiv(100 * config[1].BrightnessMs, 667)
             raw   == IF config[1].FadeMs > 0
                      THEN RoundDiv(3333, config[1].FadeMs)
                      ELSE -RoundDiv(3333, -config[1].FadeMs)
             speed == IF raw < 1 THEN 1 ELSE IF raw > 10 THEN 10 ELSE raw
         IN  ToString(ticks) \o "|" \o ToString(speed)

RECURSIVE Join(_, _)
\* strings.Join
Join(parts, sep) ==
    IF Len(parts) = 0 THEN ""
    ELSE IF Len(parts) = 1 THEN parts[1]
    ELSE parts[1] \o sep \o Join(Tail(parts), sep)

\* strings.ToUpper on the colours the model uses
ToUpper(color) ==
    CASE color = "ff0000" -> "FF0000"
      [] color = "00ff00" -> "00FF00"
      [] color = "0000ff" -> "0000FF"
      [] OTHER -> color

RECURSIVE RunLength(_, _, _)
\* number of consecutive slots from 0-based index j on that hold color
RunLength(ring, j, color) ==
    IF j < RingSize /\ ring[j + 1] = color
    THEN 1 + RunLength(ring, j + 1, color)
    ELSE 0

RECURSIVE RingTokens(_, _)
\* the tokens buildRingSegments emits from 0-based index i on
RingTokens(ring, i) ==
    IF i >= RingSize THEN <<>>
    ELSE LET color == ring[i + 1] IN
         IF color = "" \/ color = Black
         THEN RingTokens(ring, i + 1)
         ELSE LET count == 1 + RunLength(ring, i + 1, color) IN
              << ToString(i) \o "|" \o ToString(count) \o "|" \o ToUpper(color) >>
                  \o RingTokens(ring, i + count)

buildRingSegments(ring) == Join(RingTokens(ring, 0), "|")

RingParts_WhirlFirst(ring, leds, whirlMs, morph) ==
    << ring \o "_init=1" >>
    \o (IF whirlMs > 0
        THEN << ring \o "_whirl=" \o ToString(whirlMs) >> ELSE <<>>)
    \o (IF buildRingSegments(leds) # ""
        THEN << ring \o "=" \o buildRingSegments(leds) >> ELSE <<>>)
    \o (IF morph # Nil
        THEN << ring \o "_morph=" \o ConvertMorphToDevice(morph) >> ELSE <<>>)

\* the parts BuildStateQuery emits for one ring
RingParts(ring, leds, whirlMs, morph) ==
    << ring \o "_init=1" >>
    \o (IF buildRingSegments(leds) # ""
        THEN << ring \o "=" \o buildRingSegments(leds) >> ELSE <<>>)
    \o (IF whirlMs > 0
        THEN << ring \o "_whirl=" \o ToString(whirlMs) >> ELSE <<>>)
    \o (IF morph # Nil
        THEN << ring \o "_morph=" \o ConvertMorphToDevice(morph) >> ELSE <<>>)

BuildStateQuery(m) ==
    Join( << "dim=" \o ToString(m.state.Dim) >>
          \o RingParts("top", m.state.Top, m.state.TopWhirlMs, m.state.TopMorph)
          \o RingParts("bottom", m.state.Bottom, m.state.BottomWhirlMs,
                       m.state.BottomMorph)
          \o << IF m.state.LogoOn THEN "logo=on" ELSE "logo=off" >>,
          "&" )

\* ------------------------------------------------------------------------
\* History variables
\* ------------------------------------------------------------------------

Op(name, ret, events) == [op |-> name, ret |-> ret, events |-> events]

NoRun == [ok |-> FALSE, pushed |-> <<>>, rets |-> <<>>]

\* a push on the empty stack starts a run of pushes; a push after a pop of
\* the run ends it
UnwindPush(u, m, item) ==
    IF Len(m.effectStack) = 0
    THEN [ok |-> TRUE, pushed |-> <<item>>, rets |-> <<>>]
    ELSE IF u.ok /\ u.rets = <<>>
         THEN [u EXCEPT !.pushed = Append(@, item)]
         ELSE NoRun

\* the pops that follow the pushes of a run are recorded until the stack is
\* empty again
UnwindPop(u, m, ret) ==
    IF u.ok /\ Len(m.effectStack) > 0
    THEN [u EXCEPT !.rets = Append(@, ret)]
    ELSE NoRun

\* sync.RWMutex with nobody holding it
Unlocked == [writer |-> 0, readers |-> {}]

NoDimLog == [events |-> <<>>, changes |-> 0]

\* NewBroadcaster: empty eventChan, no subscribers, run waits for an event;
\* no channel is closed and no goroutine has panicked
NewBroadcaster ==
    [eventChan |-> 0,
     subscribers |-> [id \in {} |-> 0],
     run |-> [pc |-> "receive", pending |-> {}],
     closed |-> FALSE,
     closedSubs |-> {},
     fault |-> ""]

Callers == 1..NumCallers

\* a caller that runs no tool call
Idle == [pc |-> "idle"]

Result(tool, text) == [tool |-> tool, text |-> text]

NoRemoval == [by |-> "none", timer |-> 0]

Layer(item, timed) ==
    [perpetual |-> "perpetual" \in DOMAIN item.Context /\ item.Context.perpetual,
     timed |-> timed,
     removedBy |-> NoRemoval]

\* the ordinals of the entries left after a pop
PopIds == IF Len(ids) = 0 THEN ids ELSE Front(ids)

\* the layers after a pop made by a stopEffect call (n = 0) or by timer n
PopLayers(ls, by, n) ==
    IF Len(ids) > 0 /\ Last(ids) > 0
    THEN [ls EXCEPT ![Last(ids)].removedBy = [by |-> by, timer |-> n]]
    ELSE ls

\* ------------------------------------------------------------------------
\* Inputs
\* ------------------------------------------------------------------------

\* the entries TestEffectStack pushes
PushInputs ==
    { EffectStackItem("X", "patternX", [perpetual |-> TRUE]),
      EffectStackItem("__config__", "patternY", [synthetic |-> TRUE]),
      EffectStackItem("__config__", "patternZ", [synthetic |-> TRUE]),
      EffectStackItem("A", "patternA", [duration |-> 5000]) }

BasePattern == "top_init=1&bottom_init=1&top=0|15|00ff00"

BaseInputs == {"", BasePattern}

EffectNameInputs == {"rainbow"}

DimInputs == {128, DefaultDim}

\* ------------------------------------------------------------------------
\* A client calling the Manager API directly
\* ------------------------------------------------------------------------

Init ==
    /\ manager = NewManager
    /\ lastOp = Op("NewManager", Nil, <<>>)
    /\ unwind = [ok |-> TRUE, pushed |-> <<>>, rets |-> <<>>]
    /\ ids = <<>>
    /\ layers = <<>>
    /\ timers = {}
    /\ calls = [c \in Callers |-> Idle]
    /\ device = ""
    /\ result = Result("", "")
    /\ mu = Unlocked
    /\ dimLog = NoDimLog
    /\ broadcaster = NewBroadcaster
    /\ stackCap = 0

CallPushEffect ==
    \E e \in PushInputs :
        /\ Len(manager.effectStack) < MaxDepth
        /\ manager' = PushEffect(manager, e.Name, e.Pattern, e.Context)
        /\ lastOp' = Op("PushEffect", Nil, <<>>)
        /\ unwind' = UnwindPush(unwind, manager, e)
        /\ ids' = Append(ids, 0)
        /\ UNCHANGED <<layers, timers, calls, device, result, storeVars>>

CallPopEffect ==
    LET r == PopEffect(manager) IN
        /\ manager' = r.m
        /\ lastOp' = Op("PopEffect", r.ret, <<>>)
        /\ unwind' = UnwindPop(unwind, manager, r.ret)
        /\ ids' = PopIds
        /\ UNCHANGED <<layers, timers, calls, device, result, storeVars>>

CallGetCurrentEffect ==
    /\ lastOp' = Op("GetCurrentEffect", GetCurrentEffect(manager), <<>>)
    /\ UNCHANGED <<manager, unwind, toolVars>>

CallSetBaseState ==
    \E p \in BaseInputs :
        /\ manager' = SetBaseState(manager, p)
        /\ lastOp' = Op("SetBaseState", Nil, <<>>)
        /\ UNCHANGED <<unwind, toolVars>>

CallReset ==
    /\ manager' = Reset(manager)
    /\ lastOp' = Op("Reset", Nil, ResetEvents)
    /\ UNCHANGED <<unwind, toolVars>>

CallUpdateEffect ==
    \E n \in EffectNameInputs :
        /\ manager' = UpdateEffect(manager, n)
        /\ lastOp' = Op("UpdateEffect", Nil, <<>>)
        /\ UNCHANGED <<unwind, toolVars>>

CallClearEffect ==
    /\ manager' = ClearEffect(manager)
    /\ lastOp' = Op("ClearEffect", Nil, <<>>)
    /\ UNCHANGED <<unwind, toolVars>>

CallSetActiveEffect ==
    \E n \in EffectNameInputs :
        /\ manager' = SetActiveEffect(manager, n)
        /\ lastOp' = Op("SetActiveEffect", Nil, <<>>)
        /\ UNCHANGED <<unwind, toolVars>>

CallUpdateBrightness ==
    \E level \in DimInputs :
        /\ manager' = UpdateBrightness(manager, level)
        /\ lastOp' = Op("UpdateBrightness", Nil,
                        UpdateBrightnessEvents(manager, level))
        /\ UNCHANGED <<unwind, toolVars>>

Next ==
    \/ CallPushEffect
    \/ CallPopEffect
    \/ CallGetCurrentEffect
    \/ CallSetBaseState
    \/ CallReset
    \/ CallUpdateEffect
    \/ CallClearEffect
    \/ CallSetActiveEffect
    \/ CallUpdateBrightness

Spec == Init /\ [][Next]_vars

\* ------------------------------------------------------------------------
\* Tool handlers.  A handler is a sequence of steps, one per call into the
\* manager or the device; calls[c].pc is the step caller c takes next.
\* ------------------------------------------------------------------------

\* the effect catalog (effects.Store)
Store ==
    { [Name |-> "ocean", Pattern |-> "pattern1", Duration |-> 0,
       Perpetual |-> TRUE],
      [Name |-> "alert", Pattern |-> "pattern2", Duration |-> 5000,
       Perpetual |-> FALSE] }

PlayNameInputs == {"missing", "ocean", "alert"}

\* the duration argument of playEffect: absent, or a number
PlayDurationInputs == {Nil, <<0>>, <<3600001>>}

MaxPlayDuration == 3600000

\* the arguments of configureLighting
BrightnessInputs == {Nil, <<128>>, <<300>>}

LogoInputs == {Nil, <<"on">>}

ConfigDurationInputs == {Nil, <<5>>}

PlayClearCommand == "top_init=1&bottom_init=1"

ClearCommand == "top_init=1&bottom_init=1&logo=off"

ConfigContext == [synthetic |-> TRUE, perpetual |-> TRUE]

\* the steps of a handler after which it still pushes an entry
PushingPcs == {"play_push", "cfg_logo", "cfg_send", "cfg_build", "cfg_push"}

\* a tool call that may push is admitted while the pushes made and the
\* pushes pending stay within MaxPushes
PushBudget ==
    Len(layers) + Cardinality({c \in Callers : calls[c].pc \in PushingPcs})
        < MaxPushes

\* a handler returns without having called the manager or the device
Return(c, tool, text) ==
    /\ calls' = [calls EXCEPT ![c] = Idle]
    /\ result' = Result(tool, text)
    /\ UNCHANGED <<manager, lastOp, unwind, storeVars, ids, layers, timers, device>>

\* the completion goroutine of push n, started by tool
Timer(n, tool) == [id |-> n, tool |-> tool, pc |-> "sleeping", prev |-> Nil]

\* the history of a push made by a tool call
ToolPush(item, timed, tool) ==
    /\ ids' = Append(ids, Len(layers) + 1)
    /\ layers' = Append(layers, Layer(item, timed))
    /\ timers' = IF timed THEN timers \cup {Timer(Len(layers) + 1, tool)}
                 ELSE timers

\* playEffect: validate the arguments and send the pattern to the device
PlayEffectBegin(c) ==
    /\ calls[c].pc = "idle"
    /\ PushBudget
    /\ \E name \in PlayNameInputs, durationArg \in PlayDurationInputs,
          sendOk \in BOOLEAN :
        LET found == {e \in Store : e.Name = name} IN
        IF found = {}
        THEN Return(c, "playEffect", "error: effect not found")
        ELSE
            LET effect == CHOOSE e \in found : TRUE
                duration == IF durationArg = Nil THEN effect.Duration
                            ELSE durationArg[1]
            IN  IF durationArg # Nil
                   /\ (duration < 0 \/ duration > MaxPlayDuration)
                THEN Return(c, "playEffect", "error: duration out of range")
                ELSE IF ~sendOk
                THEN Return(c, "playEffect", "error: send failed")
                ELSE
                    /\ device' = effect.Pattern
                    /\ calls' = [calls EXCEPT ![c] =
                                    [pc |-> "play_push",
                                     name |-> name,
                                     pattern |-> effect.Pattern,
                                     duration |-> duration,
                                     perpetual |-> effect.Perpetual]]
                    /\ UNCHANGED <<manager, lastOp, unwind, storeVars, ids, layers,
                                   timers, result>>

PlayEffectPush_TimerIgnoresDuration(c) ==
    /\ calls[c].pc = "play_push"
    /\ LET l == calls[c]
           context == [duration |-> l.duration, perpetual |-> l.perpetual]
       IN  /\ manager' = PushEffect(manager, l.name, l.pattern, context)
           /\ ToolPush(EffectStackItem(l.name, l.pattern, context),
                       ~l.perpetual, "playEffect")
    /\ calls' = [calls EXCEPT ![c] = Idle]
    /\ result' = Result("playEffect", "started")
    /\ UNCHANGED <<lastOp, unwind, storeVars, device>>

\* playEffect: push the effect and start the completion goroutine of a
\* timed effect
PlayEffectPush(c) ==
    /\ calls[c].pc = "play_push"
    /\ LET l == calls[c]
           context == [duration |-> l.duration, perpetual |-> l.perpetual]
       IN  /\ manager' = PushEffect(manager, l.name, l.pattern, context)
           /\ ToolPush(EffectStackItem(l.name, l.pattern, context),
                       l.duration > 0 /\ ~l.perpetual, "playEffect")
    /\ calls' = [calls EXCEPT ![c] = Idle]
    /\ result' = Result("playEffect", "started")
    /\ UNCHANGED <<lastOp, unwind, storeVars, device>>

TimerWake_IfOwnLayer(t) ==
    /\ t \in timers
    /\ t.pc = "sleeping"
    /\ LET own == Len(ids) > 0 /\ Last(ids) = t.id
           r == IF own THEN PopEffect(manager)
                ELSE [m |-> manager, ret |-> GetCurrentEffect(manager)]
       IN  /\ manager' = r.m
           /\ ids' = IF own THEN PopIds ELSE ids
           /\ layers' = IF own THEN PopLayers(layers, "timer", t.id)
                        ELSE layers
           /\ timers' = (timers \ {t})
                            \cup {[t EXCEPT !.pc = "woken", !.prev = r.ret]}
    /\ UNCHANGED <<lastOp, unwind, storeVars, calls, device, result>>

\* a completion goroutine wakes up and pops the stack
TimerWake(t) ==
    /\ t \in timers
    /\ t.pc = "sleeping"
    /\ LET r == PopEffect(manager) IN
           /\ manager' = r.m
           /\ ids' = PopIds
           /\ layers' = PopLayers(layers, "timer", t.id)
           /\ timers' = (timers \ {t})
                            \cup {[t EXCEPT !.pc = "woken", !.prev = r.ret]}
    /\ UNCHANGED <<lastOp, unwind, storeVars, calls, device, result>>

\* what a completion goroutine sends after its pop
TimerQuery(t) ==
    IF t.prev # Nil THEN t.prev[1].Pattern
    ELSE IF t.tool = "playEffect" THEN PlayClearCommand
    ELSE ClearCommand

\* a completion goroutine re-sends the pattern its pop returned, or clears
\* the device; it ignores a failed send
TimerRestore(t) ==
    /\ t \in timers
    /\ t.pc = "woken"
    /\ \E sendOk \in BOOLEAN :
           device' = IF sendOk THEN TimerQuery(t) ELSE device
    /\ timers' = timers \ {t}
    /\ UNCHANGED <<manager, lastOp, unwind, storeVars, ids, layers, calls, result>>

\* stopEffect: read the current effect
StopEffectBegin(c) ==
    /\ calls[c].pc = "idle"
    /\ LET currentEffect == GetCurrentEffect(manager) IN
           IF currentEffect = Nil
           THEN /\ calls' = [calls EXCEPT ![c] = Idle]
                /\ result' = Result("stopEffect", "no effect is running")
           ELSE /\ calls' = [calls EXCEPT ![c] =
                                [pc |-> "stop_pop",
                                 currentEffect |-> currentEffect,
                                 currentId |-> Last(ids)]]
                /\ UNCHANGED result
    /\ UNCHANGED <<manager, lastOp, unwind, storeVars, ids, layers, timers, device>>

\* stopEffect: pop the stack
StopEffectPop(c) ==
    /\ calls[c].pc = "stop_pop"
    /\ LET r == PopEffect(manager) IN
           /\ manager' = r.m
           /\ ids' = PopIds
           /\ layers' = PopLayers(layers, "stopEffect", 0)
           /\ calls' = [calls EXCEPT ![c] =
                           [pc |-> "stop_send",
                            currentEffect |-> calls[c].currentEffect,
                            currentId |-> calls[c].currentId,
                            removedId |-> IF Len(ids) = 0 THEN 0 ELSE Last(ids),
                            previousEffect |-> r.ret]]
    /\ UNCHANGED <<lastOp, unwind, storeVars, timers, device, result>>

\* stopEffect: re-send the previous pattern, or clear the device
StopEffectSend(c) ==
    /\ calls[c].pc = "stop_send"
    /\ \E sendOk \in BOOLEAN :
        LET l == calls[c] IN
        IF ~sendOk
        THEN Return(c, "stopEffect", "error: send failed")
        ELSE IF l.previousEffect # Nil
        THEN /\ device' = l.previousEffect[1].Pattern
             /\ calls' = [calls EXCEPT ![c] = Idle]
             /\ result' = Result("stopEffect", "stopped and resumed")
             /\ UNCHANGED <<manager, lastOp, unwind, storeVars, ids, layers, timers>>
        ELSE /\ device' = ClearCommand
             /\ calls' = [calls EXCEPT ![c] = [pc |-> "stop_top"]]
             /\ UNCHANGED <<manager, lastOp, unwind, storeVars, ids, layers, timers,
                            result>>

\* stopEffect on the last entry: the shadow rings and the logo go dark
StopEffectTop(c) ==
    /\ calls[c].pc = "stop_top"
    /\ manager' = UpdateTopRing(manager, EmptyColors)
    /\ calls' = [calls EXCEPT ![c] = [pc |-> "stop_bottom"]]
    /\ UNCHANGED <<lastOp, unwind, storeVars, ids, layers, timers, device, result>>

StopEffectBottom(c) ==
    /\ calls[c].pc = "stop_bottom"
    /\ manager' = UpdateBottomRing(manager, EmptyColors)
    /\ calls' = [calls EXCEPT ![c] = [pc |-> "stop_logo"]]
    /\ UNCHANGED <<lastOp, unwind, storeVars, ids, layers, timers, device, result>>

StopEffectLogo(c) ==
    /\ calls[c].pc = "stop_logo"
    /\ manager' = UpdateLogo(manager, FALSE)
    /\ calls' = [calls EXCEPT ![c] = Idle]
    /\ result' = Result("stopEffect", "stopped and cleared")
    /\ UNCHANGED <<lastOp, unwind, storeVars, ids, layers, timers, device>>

\* buildLogoQuery for a logo argument that gives only the state
LogoQuery(logo) ==
    IF logo = Nil THEN <<>>
    ELSE IF logo[1] = "off" THEN << "logo=000000|000000|000000|000000" >>
    ELSE IF logo[1] = "on" THEN << "logo=on" >>
    ELSE <<>>

\* configureLighting: the brightness argument
ConfigureLightingBegin(c) ==
    /\ calls[c].pc = "idle"
    /\ PushBudget
    /\ \E brightness \in BrightnessInputs, logo \in LogoInputs,
          duration \in ConfigDurationInputs :
        IF brightness # Nil /\ (brightness[1] < 0 \/ brightness[1] > 255)
        THEN Return(c, "configureLighting", "error: brightness out of range")
        ELSE
            /\ manager' = IF brightness # Nil
                          THEN UpdateBrightness(manager, brightness[1])
                          ELSE manager
            /\ calls' = [calls EXCEPT ![c] =
                            [pc |-> "cfg_logo",
                             queries |-> IF brightness # Nil
                                         THEN << "dim=" \o ToString(brightness[1]) >>
                                         ELSE <<>>,
                             logo |-> logo,
                             duration |-> duration]]
            /\ UNCHANGED <<lastOp, unwind, storeVars, ids, layers, timers, device,
                           result>>

\* configureLighting: the logo argument; without any query the call ends
ConfigureLightingLogo(c) ==
    /\ calls[c].pc = "cfg_logo"
    /\ LET l == calls[c]
           queries == l.queries \o LogoQuery(l.logo)
       IN  /\ manager' = IF LogoQuery(l.logo) # <<>>
                         THEN UpdateLogo(manager, l.logo[1] # "off")
                         ELSE manager
           /\ IF Len(queries) = 0
              THEN /\ calls' = [calls EXCEPT ![c] = Idle]
                   /\ result' = Result("configureLighting",
                                       "no lighting configuration provided")
              ELSE /\ calls' = [calls EXCEPT ![c] =
                                   [pc |-> "cfg_send",
                                    queries |-> queries,
                                    duration |-> l.duration]]
                   /\ UNCHANGED result
    /\ UNCHANGED <<lastOp, unwind, storeVars, ids, layers, timers, device>>

\* configureLighting: send the combined query
ConfigureLightingSend(c) ==
    /\ calls[c].pc = "cfg_send"
    /\ \E sendOk \in BOOLEAN :
        IF ~sendOk
        THEN Return(c, "configureLighting", "error: send failed")
        ELSE /\ device' = Join(calls[c].queries, "&")
             /\ calls' = [calls EXCEPT ![c] =
                             [pc |-> "cfg_build",
                              duration |-> calls[c].duration]]
             /\ UNCHANGED <<manager, lastOp, unwind, storeVars, ids, layers, timers,
                            result>>

\* configureLighting: capture the complete state
ConfigureLightingBuild(c) ==
    /\ calls[c].pc = "cfg_build"
    /\ calls' = [calls EXCEPT ![c] =
                    [pc |-> "cfg_push",
                     completeState |-> BuildStateQuery(manager),
                     duration |-> calls[c].duration]]
    /\ UNCHANGED <<manager, lastOp, unwind, storeVars, ids, layers, timers, device,
                   result>>

\* the duration argument in milliseconds: a value below 50 is in seconds
ConfigDurationMs(duration) ==
    IF duration = Nil THEN 0
    ELSE IF duration[1] > 0 /\ duration[1] < 50 THEN duration[1] * 1000
    ELSE duration[1]

\* configureLighting: push the __config__ layer and, with a duration, start
\* the goroutine that pops it
ConfigureLightingPush(c) ==
    /\ calls[c].pc = "cfg_push"
    /\ LET l == calls[c] IN
           /\ manager' = PushEffect(manager, "__config__", l.completeState,
                                    ConfigContext)
           /\ ToolPush(EffectStackItem("__config__", l.completeState,
                                       ConfigContext),
                       ConfigDurationMs(l.duration) > 0, "configureLighting")
    /\ calls' = [calls EXCEPT ![c] = Idle]
    /\ result' = Result("configureLighting", "configured")
    /\ UNCHANGED <<lastOp, unwind, storeVars, device>>

ToolNext ==
    \/ \E c \in Callers : PlayEffectBegin(c)
    \/ \E c \in Callers : PlayEffectPush(c)
    \/ \E c \in Callers : StopEffectBegin(c)
    \/ \E c \in Callers : StopEffectPop(c)
    \/ \E c \in Callers : StopEffectSend(c)
    \/ \E c \in Callers : StopEffectTop(c)
    \/ \E c \in Callers : StopEffectBottom(c)
    \/ \E c \in Callers : StopEffectLogo(c)
    \/ \E c \in Callers : ConfigureLightingBegin(c)
    \/ \E c \in Callers : ConfigureLightingLogo(c)
    \/ \E c \in Callers : ConfigureLightingSend(c)
    \/ \E c \in Callers : ConfigureLightingBuild(c)
    \/ \E c \in Callers : ConfigureLightingPush(c)
    \/ \E t \in timers : TimerWake(t)
    \/ \E t \in timers : TimerRestore(t)

ToolSpec == Init /\ [][ToolNext]_vars

\* playEffect calls and their completion goroutines alone; a handler that
\* has sent its pattern goes on to push, and a goroutine that was started
\* wakes up and runs to its end
PlayNext ==
    \/ \E c \in Callers : PlayEffectBegin(c)
    \/ \E c \in Callers : PlayEffectPush(c)
    \/ \E t \in timers : TimerWake(t)
    \/ \E t \in timers : TimerRestore(t)

PlayFairness ==
    /\ WF_vars(\E c \in Callers : PlayEffectPush(c))
    /\ WF_vars(\E t \in timers : TimerWake(t))
    /\ WF_vars(\E t \in timers : TimerRestore(t))

PlaySpec == Init /\ [][PlayNext]_vars /\ PlayFairness

\* ------------------------------------------------------------------------
\* A client of the field writers and of Reset; dimLog records what
\* UpdateBrightness published and how often the brightness changed
\* ------------------------------------------------------------------------

\* the colours written with UpdateTopRing and UpdateBottomRing
RingColorsInputs == { <<"ff0000", "", "00ff00">> }

StoreUpdateBrightness ==
    \E level \in DimInputs :
        /\ dimLog.changes < MaxDimChanges
        /\ Len(dimLog.events) < MaxDimChanges
        /\ manager' = UpdateBrightness(manager, level)
        /\ lastOp' = Op("UpdateBrightness", Nil,
                        UpdateBrightnessEvents(manager, level))
        /\ dimLog' = [events |-> dimLog.events
                                    \o UpdateBrightnessEvents(manager, level),
                      changes |-> dimLog.changes
                                    + (IF manager.state.Dim # level
                                       THEN 1 ELSE 0)]
        /\ UNCHANGED <<unwind, ids, layers, timers, calls, device, result, mu,
                       broadcaster, stackCap>>

StoreUpdateLogo ==
    \E on \in BOOLEAN :
        /\ manager' = UpdateLogo(manager, on)
        /\ lastOp' = Op("UpdateLogo", Nil, <<>>)
        /\ UNCHANGED <<unwind, toolVars>>

StoreUpdateTopRing ==
    \E colors \in RingColorsInputs :
        /\ manager' = UpdateTopRing(manager, colors)
        /\ lastOp' = Op("UpdateTopRing", Nil, RingColorsEvents("top", colors))
        /\ UNCHANGED <<unwind, toolVars>>

StoreUpdateBottomRing ==
    \E colors \in RingColorsInputs :
        /\ manager' = UpdateBottomRing(manager, colors)
        /\ lastOp' = Op("UpdateBottomRing", Nil,
                        RingColorsEvents("bottom", colors))
        /\ UNCHANGED <<unwind, toolVars>>

StoreNext ==
    \/ StoreUpdateBrightness
    \/ StoreUpdateLogo
    \/ StoreUpdateTopRing
    \/ StoreUpdateBottomRing
    \/ CallUpdateEffect
    \/ CallReset

StoreSpec == Init /\ [][StoreNext]_vars

\* ------------------------------------------------------------------------
\* A client that sets rings, animations, logo and brightness and asks for
\* the state query
\* (lastOp.ring is the ring name a call was given)
\* ------------------------------------------------------------------------

RingNameInputs == {"top", "bottom", "middle"}

\* a list longer than the ring whose only colour lies past the last slot
LongColors ==
    [i \in 1..(RingSize + 1) |-> IF i = RingSize + 1 THEN "ffffff" ELSE ""]

ColorsInputs ==
    { <<"ff0000", "ff0000", "ff0000", "00ff00", "00ff00">>,
      <<"ff0000", "", "0000ff">>,
      LongColors }

BackgroundInputs == {"", "00ff00"}

WhirlInputs == {0, 1000}

MorphInputs == {Nil, << [BrightnessMs |-> 1000, FadeMs |-> 500] >>}

QueryUpdateRingSegments ==
    \E ring \in RingNameInputs, colors \in ColorsInputs,
       background \in BackgroundInputs :
        /\ manager' = UpdateRingSegments(manager, ring, colors, background)
        /\ lastOp' = [op |-> "UpdateRingSegments", ret |-> Nil,
                      events |-> RingUpdateEvents(ring, colors, background),
                      ring |-> ring]
        /\ UNCHANGED <<unwind, toolVars>>

QueryUpdateWhirl ==
    \E ring \in RingNameInputs, whirlMs \in WhirlInputs :
        /\ manager' = UpdateWhirl(manager, ring, whirlMs)
        /\ lastOp' = [op |-> "UpdateWhirl", ret |-> Nil, events |-> <<>>,
                      ring |-> ring]
        /\ UNCHANGED <<unwind, toolVars>>

QueryUpdateMorph ==
    \E ring \in RingNameInputs, morph \in MorphInputs :
        /\ manager' = UpdateMorph(manager, ring, morph)
        /\ lastOp' = [op |-> "UpdateMorph", ret |-> Nil, events |-> <<>>,
                      ring |-> ring]
        /\ UNCHANGED <<unwind, toolVars>>

QueryBuildStateQuery ==
    /\ lastOp' = Op("BuildStateQuery", <<BuildStateQuery(manager)>>, <<>>)
    /\ UNCHANGED <<manager, unwind, toolVars>>

QueryNext ==
    \/ QueryUpdateRingSegments
    \/ QueryUpdateWhirl
    \/ QueryUpdateMorph
    \/ StoreUpdateLogo
    \/ CallUpdateBrightness
    \/ QueryBuildStateQuery

QuerySpec == Init /\ [][QueryNext]_vars

\* ------------------------------------------------------------------------
\* The setRingPattern tool: segments arrive as strings "start|count|color";
\* a segment is modelled as its strings.Split parts, each part with its text
\* and with what fmt.Sscanf(part, "%d") reads from it (<<n>>, or Nil when the
\* part is no number)
\* ------------------------------------------------------------------------

Num(n) == [text |-> ToString(n), int |-> <<n>>]

Txt(t) == [text |-> t, int |-> Nil]

Segment(start, count, color) == << Num(start), Num(count), Txt(color) >>

SegmentText(segment) ==
    Join([i \in 1..Len(segment) |-> segment[i].text], "|")

\* six hex digits in either case, on the colours the model uses
isValidHexColor(color) ==
    color \in {"ff0000", "FF0000", "00ff00", "00FF00", "0000ff", "0000FF",
               "ffffff", "FFFFFF", "000000"}

isValidSegmentFormat(segment) ==
    Len(segment) = 3 /\ isValidHexColor(segment[3].text)

\* the indices the loop `for i := 0; i < count && startLed+i < 15; i++`
\* passes to colors[startLed+i]
LoopIndices(startLed, count) ==
    { startLed + i : i \in { k \in 0..(count - 1) : startLed + k < RingSize } }

\* one iteration of the segment loop of parseLedColors on the accumulated
\* colors; a negative index is a run-time panic, which ends the decode
ApplySegment(acc, segment) ==
    IF acc.fault \/ Len(segment) # 3 THEN acc
    ELSE IF segment[1].int = Nil \/ segment[2].int = Nil THEN acc
    ELSE LET startLed == segment[1].int[1]
             count    == segment[2].int[1]
             color    == segment[3].text
         IN  IF count > 0 /\ startLed < 0
             THEN [acc EXCEPT !.fault = TRUE,
                              !.indexed = @ \cup {startLed}]
             ELSE [colors  |-> [j \in 1..RingSize |->
                                   IF (j - 1) \in LoopIndices(startLed, count)
                                   THEN color ELSE acc.colors[j]],
                   indexed |-> acc.indexed \cup LoopIndices(startLed, count),
                   fault   |-> FALSE]

RECURSIVE ApplySegments(_, _)
ApplySegments(acc, segments) ==
    IF segments = <<>> THEN acc
    ELSE ApplySegments(ApplySegment(acc, Head(segments)), Tail(segments))

\* parseLedColors: 15 slots of the background (000000 without one), then
\* the segments in order; indexed is the set of indices it used
parseLedColors(segments, background) ==
    ApplySegments(
        [colors  |-> [j \in 1..RingSize |->
                         IF background # "" THEN background ELSE Black],
         indexed |-> {},
         fault   |-> FALSE],
        segments)

buildRingPatternCommand(ring, segments, background) ==
    Join( << ring \o "_init=1" >>
          \o (IF Len(segments) > 0
              THEN << ring \o "="
                      \o Join([i \in 1..Len(segments) |->
                                  SegmentText(segments[i])], "|") >>
              ELSE <<>>)
          \o (IF background # "" THEN << ring \o "_bg=" \o background >>
              ELSE <<>>),
          "&" )

\* the result of a setRingPattern call, with what the call was given and
\* what parseLedColors made of it
PatternResult(status, ring, segments, background, decoded) ==
    [tool |-> "setRingPattern", text |-> status, ring |-> ring,
     segments |-> segments, background |-> background, decoded |-> decoded]

SegmentsInputs ==
    { <<>>,
      << Segment(0, 3, "FF0000"), Segment(3, 2, "00FF00") >>,
      << Segment(0, 1, "ff0000"), Segment(1, 1, "FF0000"),
         Segment(13, 5, "0000ff") >>,
      << Segment(15, 1, "ffffff"), Segment(2, 0, "ffffff"),
         << Txt("x"), Num(3), Txt("ff0000") >>, Segment(5, 1, "00ff00") >>,
      << Segment(-1, 2, "ff0000") >>,
      << << Num(0), Txt("ff0000") >> >> }

PatternRingInputs == {"top", "bottom"}

PatternBackgroundInputs == {"", "0000ff"}

\* setRingPattern for ring top or bottom, without whirlMs,
\* counterClockwise and morph: validation,
\* the send to the device, then the shadow update
SetRingPattern ==
    \E ring \in PatternRingInputs, segments \in SegmentsInputs,
       background \in PatternBackgroundInputs, sendOk \in BOOLEAN :
        LET decoded == parseLedColors(segments, background)
            invalid == \/ \E i \in 1..Len(segments) :
                              ~isValidSegmentFormat(segments[i])
                       \/ (background # "" /\ ~isValidHexColor(background))
        IN  /\ IF invalid \/ ~sendOk
               THEN /\ lastOp' = Op("setRingPattern", <<"error">>, <<>>)
                    /\ result' = PatternResult("error", ring, segments,
                                               background, Nil)
                    /\ UNCHANGED <<manager, device>>
               ELSE /\ device' = buildRingPatternCommand(ring, segments,
                                                         background)
                    /\ IF decoded.fault
                       THEN /\ lastOp' = Op("setRingPattern", <<"panic">>,
                                            <<>>)
                            /\ result' = PatternResult("panic", ring,
                                              segments, background,
                                              <<decoded>>)
                            /\ UNCHANGED manager
                       ELSE /\ manager' = UpdateRingSegments(manager, ring,
                                              decoded.colors, background)
                            /\ lastOp' = Op("setRingPattern", <<"ok">>,
                                            RingUpdateEvents(ring,
                                                decoded.colors, background))
                            /\ result' = PatternResult("ok", ring, segments,
                                                       background, <<decoded>>)
            /\ UNCHANGED <<unwind, ids, layers, timers, calls, storeVars>>

PatternNext ==
    \/ SetRingPattern
    \/ QueryBuildStateQuery

PatternSpec == Init /\ [][PatternNext]_vars

\* strconv.Atoi with its error ignored: 0 for a part that is no number
Atoi(part) == IF part.int = Nil THEN 0 ELSE part.int[1]

\* a segment as updateRingState reads it: three parts, start and count
\* through Atoi
AtoiSegment(segment) ==
    IF Len(segment) = 3
    THEN << Num(Atoi(segment[1])), Num(Atoi(segment[2])), segment[3] >>
    ELSE segment

\* the colors updateRingState builds from the segments of a ring
\* configuration
updateRingColors(segments, background) ==
    parseLedColors([i \in 1..Len(segments) |-> AtoiSegment(segments[i])],
                   background)

\* configureLighting with one ring configuration of segments and an
\* optional background, no brightness, logo or duration: buildRingQuery
\* validates and then updates the shadow ring, the query is sent, and the
\* state query is pushed as a __config__ layer
ConfigureLightingRing ==
    \E ring \in PatternRingInputs, segments \in SegmentsInputs,
       background \in PatternBackgroundInputs, sendOk \in BOOLEAN :
        LET decoded == updateRingColors(segments, background)
            invalid == \/ \E i \in 1..Len(segments) :
                              ~isValidSegmentFormat(segments[i])
                       \/ (background # "" /\ ~isValidHexColor(background))
            updated == UpdateRingSegments(manager, ring, decoded.colors,
                                          background)
            status  == IF invalid THEN "error"
                       ELSE IF decoded.fault THEN "panic"
                       ELSE IF ~sendOk THEN "send failed"
                       ELSE "ok"
        IN  /\ Len(manager.effectStack) < MaxConfigLayers
            /\ lastOp' = Op("configureLighting", <<status>>,
                            IF status \in {"ok", "send failed"}
                            THEN RingUpdateEvents(ring, decoded.colors,
                                                  background)
                            ELSE <<>>)
            /\ result' = [PatternResult(status, ring, segments, background,
                                        IF invalid THEN Nil ELSE <<decoded>>)
                             EXCEPT !.tool = "configureLighting"]
            /\ manager' = IF status = "ok"
                          THEN PushEffect(updated, "__config__",
                                          BuildStateQuery(updated),
                                          ConfigContext)
                          ELSE IF status = "send failed" THEN updated
                          ELSE manager
            /\ device' = IF status = "ok"
                         THEN buildRingPatternCommand(ring, segments,
                                                      background)
                         ELSE device
            /\ UNCHANGED <<unwind, ids, layers, timers, calls, storeVars>>

ConfigNext ==
    \/ ConfigureLightingRing
    \/ QueryBuildStateQuery

ConfigSpec == Init /\ [][ConfigNext]_vars

\* ------------------------------------------------------------------------
\* The conversions of package device as pure functions: a behaviour starts
\* with one call (lastOp.op = "call") and its only step applies the function
\* ------------------------------------------------------------------------

\* int(x) of a float: truncation toward zero, for x = a / b with b > 0
TruncDiv(a, b) == IF a >= 0 THEN a \div b ELSE -((-a) \div b)

\* int(+Inf) is implementation-dependent in Go: the smallest int64 on amd64,
\* the largest on arm64.  The two stand here as the ends of the 32-bit
\* range; only that one is below 1 and the other above 10 is used.
IntOfInf == {-2147483647, 2147483647}

\* the speed clamp of ConvertMorphToDevice
ClampSpeed(speed) == IF speed < 1 THEN 1 ELSE IF speed > 10 THEN 10 ELSE speed

\* the strings ConvertMorphToDevice can return for a non-nil config with
\* FadeMs = 0, where 3333.0 / 0 is +Inf
ConvertMorphToDeviceZeroFade(config) ==
    { ToString(RoundDiv(100 * config[1].BrightnessMs, 667)) \o "|"
      \o ToString(ClampSpeed(x)) : x \in IntOfInf }

\* the strings.Split parts of what ConvertMorphToDevice returns for a
\* non-nil config with FadeMs # 0
MorphParts(config) ==
    << Num(RoundDiv(100 * config[1].BrightnessMs, 667)),
       Num(ClampSpeed(IF config[1].FadeMs > 0
                      THEN RoundDiv(3333, config[1].FadeMs)
                      ELSE -RoundDiv(3333, -config[1].FadeMs))) >>

ConvertMorphFromDevice_IgnoresSpeed(parts) ==
    IF parts = <<>> \/ Len(parts) # 2 THEN Nil
    ELSE IF parts[1].int = Nil \/ parts[2].int = Nil THEN Nil
    ELSE IF parts[2].int[1] < 1 \/ parts[2].int[1] > 10 THEN Nil
    ELSE << [BrightnessMs |-> TruncDiv(667 * parts[1].int[1], 100),
             FadeMs       |-> 3333] >>

\* ConvertMorphFromDevice on the parts of morphSpec (<<>> for "")
ConvertMorphFromDevice(parts) ==
    IF parts = <<>> \/ Len(parts) # 2 THEN Nil
    ELSE IF parts[1].int = Nil \/ parts[2].int = Nil THEN Nil
    ELSE IF parts[2].int[1] < 1 \/ parts[2].int[1] > 10 THEN Nil
    ELSE << [BrightnessMs |-> TruncDiv(667 * parts[1].int[1], 100),
             FadeMs       |-> 3333 \div parts[2].int[1]] >>

Call(fn, arg) ==
    [op |-> "call", fn |-> fn, arg |-> arg, ret |-> Nil, events |-> <<>>]

Returned(fn, arg, ret) ==
    [op |-> fn, fn |-> fn, arg |-> arg, ret |-> ret, events |-> <<>>]

\* configs for the round trip: every brightness with two fades, every fade
\* with two brightnesses
RoundTripInputs ==
    { [BrightnessMs |-> b, FadeMs |-> f] :
         b \in 500..MaxBrightnessMs, f \in {333, 2000} }
    \cup { [BrightnessMs |-> b, FadeMs |-> f] :
              b \in {500, 2000}, f \in 200..MaxFadeMs }

\* configs for ConvertMorphToDevice alone, negative and zero included
MorphConfigInputs ==
    { [BrightnessMs |-> b, FadeMs |-> f] :
         b \in {-6670, -1000, -4, -3, 0, 3, 4, 1000, 6670},
         f \in {-3333, -100, -1, 0, 1, 100, 303, 333, 351, 2000, 2222, 2223,
                3333, 6666, 6667, 10000} }

ConvInit ==
    /\ manager = NewManager
    /\ unwind = [ok |-> TRUE, pushed |-> <<>>, rets |-> <<>>]
    /\ ids = <<>>
    /\ layers = <<>>
    /\ timers = {}
    /\ calls = [c \in Callers |-> Idle]
    /\ device = ""
    /\ result = Result("", "")
    /\ mu = Unlocked
    /\ dimLog = NoDimLog
    /\ broadcaster = NewBroadcaster
    /\ stackCap = 0
    /\ \/ \E ms \in (-2)..MaxWhirlMs :
             lastOp = Call("ConvertWhirlToDevice", [Ms |-> ms])
       \/ \E speed \in (-1)..511 :
             lastOp = Call("ConvertDeviceWhirlToMs", [Speed |-> speed])
       \/ \E config \in RoundTripInputs :
             lastOp = Call("ConvertMorphFromDevice", config)
       \/ \E config \in MorphConfigInputs :
             lastOp = Call("ConvertMorphToDevice", <<config>>)
       \/ lastOp = Call("ConvertMorphToDevice", Nil)

\* ConvertWhirlToDevice(ms) and the way back
ApplyWhirlToDevice ==
    /\ lastOp.op = "call" /\ lastOp.fn = "ConvertWhirlToDevice"
    /\ lastOp' = Returned(lastOp.fn, lastOp.arg,
                          [Speed |-> ConvertWhirlToDevice(lastOp.arg.Ms),
                           Ms |-> ConvertDeviceWhirlToMs(
                                     ConvertWhirlToDevice(lastOp.arg.Ms))])
    /\ UNCHANGED <<manager, unwind, toolVars>>

ApplyDeviceWhirlToMs ==
    /\ lastOp.op = "call" /\ lastOp.fn = "ConvertDeviceWhirlToMs"
    /\ lastOp' = Returned(lastOp.fn, lastOp.arg,
                          [Ms |-> ConvertDeviceWhirlToMs(lastOp.arg.Speed)])
    /\ UNCHANGED <<manager, unwind, toolVars>>

\* ConvertMorphFromDevice(ConvertMorphToDevice(config))
ApplyMorphRoundTrip ==
    /\ lastOp.op = "call" /\ lastOp.fn = "ConvertMorphFromDevice"
    /\ lastOp' = Returned(lastOp.fn, lastOp.arg,
                          [spec |-> ConvertMorphToDevice(<<lastOp.arg>>),
                           text |-> SegmentText(MorphParts(<<lastOp.arg>>)),
                           back |-> ConvertMorphFromDevice(
                                       MorphParts(<<lastOp.arg>>))])
    /\ UNCHANGED <<manager, unwind, toolVars>>

ApplyMorphToDevice ==
    /\ lastOp.op = "call" /\ lastOp.fn = "ConvertMorphToDevice"
    /\ \E out \in IF lastOp.arg # Nil /\ lastOp.arg[1].FadeMs = 0
                   THEN ConvertMorphToDeviceZeroFade(lastOp.arg)
                   ELSE {ConvertMorphToDevice(lastOp.arg)} :
          lastOp' = Returned(lastOp.fn, lastOp.arg, out)
    /\ UNCHANGED <<manager, unwind, toolVars>>

ConvNext ==
    \/ ApplyWhirlToDevice
    \/ ApplyDeviceWhirlToMs
    \/ ApplyMorphRoundTrip
    \/ ApplyMorphToDevice

ConvSpec == ConvInit /\ [][ConvNext]_vars

\* ------------------------------------------------------------------------
\* Manager operations under Manager.mu, one step per lock operation, per
\* field read and per field write.  calls[c] is the operation goroutine c
\* runs: its step counter k, the LedState copy a reader builds (view), the
\* manager a writer found when it got the lock (before) and, as history of a
\* reader, the committed states since its invocation (seen).
\* ------------------------------------------------------------------------

MgrOp(name, ring, colors, background) ==
    [name |-> name, ring |-> ring, colors |-> colors,
     background |-> background]

MgrOps ==
    { MgrOp("Snapshot", "", <<>>, ""),
      MgrOp("BuildStateQuery", "", <<>>, ""),
      MgrOp("Reset", "", <<>>, ""),
      MgrOp("PushEffect", "", <<>>, ""),
      MgrOp("PopEffect", "", <<>>, ""),
      MgrOp("UpdateRingSegments", "top", <<"ff0000", "ff0000", "ff0000">>, ""),
      MgrOp("UpdateRingSegments", "bottom", <<>>, "0000ff") }

\* the operations that take the read lock
ReaderNames == {"Snapshot", "BuildStateQuery"}

\* the entry the PushEffect calls push
LockPushItem == EffectStackItem("X", "patternX", [perpetual |-> TRUE])

\* the fields Snapshot copies, in the order of its statements
SnapshotReads ==
    << {"LogoOn", "Effect", "Dim", "TopWhirlMs", "BottomWhirlMs"},
       {"Top"}, {"Bottom"}, {"TopMorph"}, {"BottomMorph"} >>

\* the fields BuildStateQuery reads, in the order of its statements
QueryReads ==
    << {"Dim"}, {"Top"}, {"TopWhirlMs"}, {"TopMorph"},
       {"Bottom"}, {"BottomWhirlMs"}, {"BottomMorph"}, {"LogoOn"} >>

Reads(op) == IF op.name = "Snapshot" THEN SnapshotReads ELSE QueryReads

\* what a reader returns from the copy it built
Observation(op, view) ==
    IF op.name = "Snapshot" THEN view
    ELSE BuildStateQuery([state |-> view])

\* the number of writes the writer op makes on manager m
WriteCount(op, m) ==
    CASE op.name = "Reset" -> RingSize + 2
      [] op.name = "PushEffect" -> 2
      [] op.name = "PopEffect" -> IF Len(m.effectStack) = 0 THEN 1 ELSE 2
      [] op.name = "UpdateRingSegments" ->
            IF op.ring \notin {"top", "bottom"} THEN 0
            ELSE (IF op.background # "" THEN RingSize ELSE 0) + Len(op.colors)
      [] OTHER -> 0

\* slot i of the ring named ring becomes color
WriteSlot(m, ring, i, color) ==
    IF ring = "top" THEN [m EXCEPT !.state.Top[i] = color]
    ELSE [m EXCEPT !.state.Bottom[i] = color]

\* the manager after the k-th write of the writer op
Write(op, k, m) ==
    CASE op.name = "Reset" ->
            IF k <= RingSize
            THEN [m EXCEPT !.state.Top[k] = Black, !.state.Bottom[k] = Black]
            ELSE IF k = RingSize + 1 THEN [m EXCEPT !.state.LogoOn = FALSE]
            ELSE [m EXCEPT !.state.Effect = ""]
      [] op.name = "PushEffect" ->
            IF k = 1
            THEN [m EXCEPT !.effectStack = Append(@, LockPushItem)]
            ELSE [m EXCEPT !.state.Effect = LockPushItem.Name]
      [] op.name = "PopEffect" ->
            IF k = 1 /\ Len(m.effectStack) > 0
            THEN [m EXCEPT !.effectStack = Front(@)]
            ELSE [m EXCEPT !.state.Effect =
                     IF Len(m.effectStack) > 0
                     THEN Last(m.effectStack).Name ELSE ""]
      [] op.name = "UpdateRingSegments" ->
            LET fill == IF op.background # "" THEN RingSize ELSE 0 IN
            IF k <= fill THEN WriteSlot(m, op.ring, k, op.background)
            ELSE IF k - fill <= RingSize /\ op.colors[k - fill] # ""
            THEN WriteSlot(m, op.ring, k - fill, op.colors[k - fill])
            ELSE m
      [] OTHER -> m

\* the LedState as the last completed write operation left it
Committed ==
    IF mu.writer = 0 THEN manager.state ELSE calls[mu.writer].before.state

IsReader(c) == calls[c].pc # "idle" /\ calls[c].op.name \in ReaderNames

IsWriter(c) == calls[c].pc # "idle" /\ calls[c].op.name \notin ReaderNames

\* a goroutine calls an operation of the manager
MgrCall(c) ==
    /\ calls[c].pc = "idle"
    /\ \E op \in MgrOps :
        /\ op.name = "PushEffect" => Len(manager.effectStack) < MaxPushes
        /\ op.name \notin ReaderNames =>
              \A d \in Callers :
                  IsReader(d) => Cardinality(calls[d].seen) < MaxSeen
        /\ calls' = [calls EXCEPT ![c] =
                        [pc |-> "lock", op |-> op, k |-> 0,
                         view |-> NewManager.state,
                         before |-> NewManager,
                         seen |-> IF op.name \in ReaderNames
                                  THEN {Committed} ELSE {}]]
    /\ UNCHANGED <<manager, lastOp, unwind, ids, layers, timers, device,
                   result, storeVars>>

\* m.mu.Lock(): waits until nobody holds the lock
Lock(c) ==
    /\ calls[c].pc = "lock"
    /\ IsWriter(c)
    /\ mu.writer = 0
    /\ mu.readers = {}
    /\ mu' = [mu EXCEPT !.writer = c]
    /\ calls' = [calls EXCEPT ![c].pc = "body", ![c].before = manager]
    /\ UNCHANGED <<manager, lastOp, unwind, ids, layers, timers, device,
                   result, dimLog, broadcaster,
                   stackCap>>

RLock_IgnoresWriter(c) ==
    /\ calls[c].pc = "lock"
    /\ IsReader(c)
    /\ mu' = [mu EXCEPT !.readers = @ \cup {c}]
    /\ calls' = [calls EXCEPT ![c].pc = "body"]
    /\ UNCHANGED <<manager, lastOp, unwind, ids, layers, timers, device,
                   result, dimLog, broadcaster,
                   stackCap>>

\* m.mu.RLock(): waits until no writer holds the lock
RLock(c) ==
    /\ calls[c].pc = "lock"
    /\ IsReader(c)
    /\ mu.writer = 0
    /\ mu' = [mu EXCEPT !.readers = @ \cup {c}]
    /\ calls' = [calls EXCEPT ![c].pc = "body"]
    /\ UNCHANGED <<manager, lastOp, unwind, ids, layers, timers, device,
                   result, dimLog, broadcaster,
                   stackCap>>

\* the next write of a writer
WriteStep(c) ==
    /\ calls[c].pc = "body"
    /\ IsWriter(c)
    /\ calls[c].k < WriteCount(calls[c].op, calls[c].before)
    /\ manager' = Write(calls[c].op, calls[c].k + 1, manager)
    /\ calls' = [calls EXCEPT ![c].k = @ + 1]
    /\ UNCHANGED <<lastOp, unwind, ids, layers, timers, device, result,
                   storeVars>>

\* the next read of a reader
ReadStep(c) ==
    /\ calls[c].pc = "body"
    /\ IsReader(c)
    /\ calls[c].k < Len(Reads(calls[c].op))
    /\ LET fields == Reads(calls[c].op)[calls[c].k + 1] IN
           calls' = [calls EXCEPT
                        ![c].k = @ + 1,
                        ![c].view = [f \in DOMAIN @ |->
                                        IF f \in fields THEN manager.state[f]
                                        ELSE @[f]]]
    /\ UNCHANGED <<manager, lastOp, unwind, ids, layers, timers, device,
                   result, storeVars>>

\* the deferred m.mu.Unlock() of a writer; the state it leaves is committed
Unlock(c) ==
    /\ calls[c].pc = "body"
    /\ IsWriter(c)
    /\ calls[c].k = WriteCount(calls[c].op, calls[c].before)
    /\ mu' = [mu EXCEPT !.writer = 0]
    /\ calls' = [d \in Callers |->
                    IF d = c THEN Idle
                    ELSE IF IsReader(d)
                    THEN [calls[d] EXCEPT !.seen = @ \cup {manager.state}]
                    ELSE calls[d]]
    /\ UNCHANGED <<manager, lastOp, unwind, ids, layers, timers, device,
                   result, dimLog, broadcaster,
                   stackCap>>

\* the deferred m.mu.RUnlock() of a reader, which then returns
RUnlock(c) ==
    /\ calls[c].pc = "body"
    /\ IsReader(c)
    /\ calls[c].k = Len(Reads(calls[c].op))
    /\ mu' = [mu EXCEPT !.readers = @ \ {c}]
    /\ calls' = [calls EXCEPT ![c] = Idle]
    /\ UNCHANGED <<manager, lastOp, unwind, ids, layers, timers, device,
                   result, dimLog, broadcaster,
                   stackCap>>

LockNext ==
    \/ \E c \in Callers : MgrCall(c)
    \/ \E c \in Callers : Lock(c)
    \/ \E c \in Callers : RLock(c)
    \/ \E c \in Callers : WriteStep(c)
    \/ \E c \in Callers : ReadStep(c)
    \/ \E c \in Callers : Unlock(c)
    \/ \E c \in Callers : RUnlock(c)

LockSpec == Init /\ [][LockNext]_vars

\* ------------------------------------------------------------------------
\* The broadcaster and the writers of the manager that publish through it.
\* A channel is modelled by the number of events it holds: what an event
\* says has no influence on whether a send goes through.  A send is the set
\* of broadcasters it can leave; the empty set is a send that waits.
\* ------------------------------------------------------------------------

\* make(chan Event, 100)
EventChanCap == 100

\* make(chan Event, 10)
SubscriberChanCap == 10

SubscriberIds == {"test"}

\* the goroutine that calls the writers
Writers == {1}

\* the writers a goroutine calls
WriterOps ==
    { MgrOp("UpdateBrightness", "128", <<>>, ""),
      MgrOp("UpdateBrightness", "255", <<>>, ""),
      MgrOp("UpdateRingSegments", "top", <<"ff0000">>, ""),
      MgrOp("UpdateRingSegments", "middle", <<"ff0000">>, ""),
      MgrOp("Reset", "", <<>>, "") }

WriterLevel(op) == IF op.ring = "128" THEN 128 ELSE 255

\* the manager the body of the writer op leaves
WriterBody(op, m) ==
    CASE op.name = "UpdateBrightness" -> UpdateBrightness(m, WriterLevel(op))
      [] op.name = "UpdateRingSegments" ->
            UpdateRingSegments(m, op.ring, op.colors, op.background)
      [] OTHER -> Reset(m)

\* the events the writer op hands to Publish, in order
WriterEvents(op, m) ==
    CASE op.name = "UpdateBrightness" ->
            UpdateBrightnessEvents(m, WriterLevel(op))
      [] op.name = "UpdateRingSegments" ->
            RingUpdateEvents(op.ring, op.colors, op.background)
      [] OTHER -> ResetEvents

Publish_WithoutDefault(b, event) ==
    IF b.eventChan < EventChanCap
    THEN { [b EXCEPT !.eventChan = @ + 1] }
    ELSE {}

\* Publish: select { case b.eventChan <- event: default: }
Publish(b, event) ==
    IF b.eventChan < EventChanCap
    THEN { [b EXCEPT !.eventChan = @ + 1] }
    ELSE { b }

\* run, for one subscriber: select { case sub.Channel <- event: default: }
Deliver(b, id) ==
    IF b.subscribers[id] < SubscriberChanCap
    THEN [b EXCEPT !.subscribers[id] = @ + 1, !.run.pending = @ \ {id}]
    ELSE [b EXCEPT !.run.pending = @ \ {id}]

\* a goroutine calls a writer: m.mu.Lock(), then the writes of the body
WriterLock(c) ==
    /\ calls[c].pc = "idle"
    /\ mu.writer = 0
    /\ mu.readers = {}
    /\ \E op \in WriterOps :
        /\ mu' = [mu EXCEPT !.writer = c]
        /\ manager' = WriterBody(op, manager)
        /\ calls' = [calls EXCEPT ![c] =
                        [pc |-> "publish", op |-> op.name,
                         events |-> WriterEvents(op, manager)]]
    /\ UNCHANGED <<lastOp, unwind, ids, layers, timers, device, result,
                   dimLog, broadcaster,
                   stackCap>>

\* the writer publishes its next event
WriterPublish(c) ==
    /\ calls[c].pc = "publish"
    /\ calls[c].events # <<>>
    /\ \E b \in Publish(broadcaster, Head(calls[c].events)) :
        /\ broadcaster' = b
        /\ lastOp' = Op("Publish",
                        IF b = broadcaster THEN "dropped" ELSE "queued",
                        << Head(calls[c].events) >>)
    /\ calls' = [calls EXCEPT ![c].events = Tail(@)]
    /\ UNCHANGED <<manager, unwind, ids, layers, timers, device, result, mu,
                   dimLog, stackCap>>

\* the deferred m.mu.Unlock() of the writer, which then returns
WriterUnlock(c) ==
    /\ calls[c].pc = "publish"
    /\ calls[c].events = <<>>
    /\ mu' = [mu EXCEPT !.writer = 0]
    /\ calls' = [calls EXCEPT ![c] = Idle]
    /\ UNCHANGED <<manager, lastOp, unwind, ids, layers, timers, device,
                   result, dimLog, broadcaster,
                   stackCap>>

\* run takes the next event from eventChan and read-locks the subscribers
RunReceive ==
    /\ broadcaster.run.pc = "receive"
    /\ broadcaster.eventChan > 0
    /\ broadcaster' = [broadcaster EXCEPT
                          !.eventChan = @ - 1,
                          !.run = [pc |-> "deliver",
                                   pending |-> DOMAIN broadcaster.subscribers]]
    /\ UNCHANGED <<manager, lastOp, unwind, ids, layers, timers, calls,
                   device, result, mu, dimLog, stackCap>>

\* run offers the event to the next subscriber
RunDeliver ==
    /\ broadcaster.run.pc = "deliver"
    /\ \E id \in broadcaster.run.pending :
           broadcaster' = Deliver(broadcaster, id)
    /\ UNCHANGED <<manager, lastOp, unwind, ids, layers, timers, calls,
                   device, result, mu, dimLog, stackCap>>

\* run has offered the event to every subscriber and unlocks
RunUnlock ==
    /\ broadcaster.run.pc = "deliver"
    /\ broadcaster.run.pending = {}
    /\ broadcaster' = [broadcaster EXCEPT !.run.pc = "receive"]
    /\ UNCHANGED <<manager, lastOp, unwind, ids, layers, timers, calls,
                   device, result, mu, dimLog, stackCap>>

\* Subscribe: a new, empty channel under the id, in place of an old one;
\* b.mu.Lock() waits for run to unlock
Subscribe(id) ==
    /\ broadcaster.run.pc = "receive"
    /\ broadcaster' = [broadcaster EXCEPT
                          !.subscribers =
                              [i \in DOMAIN @ \cup {id} |->
                                  IF i = id THEN 0 ELSE @[i]]]
    /\ UNCHANGED <<manager, lastOp, unwind, ids, layers, timers, calls,
                   device, result, mu, dimLog, stackCap>>

\* Unsubscribe: the channel is closed and forgotten
Unsubscribe(id) ==
    /\ broadcaster.run.pc = "receive"
    /\ id \in DOMAIN broadcaster.subscribers
    /\ broadcaster' = [broadcaster EXCEPT
                          !.subscribers =
                              [i \in DOMAIN @ \ {id} |-> @[i]]]
    /\ UNCHANGED <<manager, lastOp, unwind, ids, layers, timers, calls,
                   device, result, mu, dimLog, stackCap>>

\* a subscriber takes an event from its channel
SubscriberReceive(id) ==
    /\ id \in DOMAIN broadcaster.subscribers
    /\ broadcaster.subscribers[id] > 0
    /\ broadcaster' = [broadcaster EXCEPT !.subscribers[id] = @ - 1]
    /\ UNCHANGED <<manager, lastOp, unwind, ids, layers, timers, calls,
                   device, result, mu, dimLog, stackCap>>

BroadcastNext ==
    \/ \E c \in Writers : WriterLock(c)
    \/ \E c \in Writers : WriterPublish(c)
    \/ \E c \in Writers : WriterUnlock(c)
    \/ RunReceive
    \/ RunDeliver
    \/ RunUnlock
    \/ \E id \in SubscriberIds : Subscribe(id)
    \/ \E id \in SubscriberIds : Unsubscribe(id)
    \/ \E id \in SubscriberIds : SubscriberReceive(id)

\* a goroutine that can run is run: a writer that holds the lock takes its
\* next step.  Nothing is assumed of run or of the subscribers.
BroadcastFairness ==
    \A c \in Writers : WF_vars(WriterPublish(c) \/ WriterUnlock(c))

BroadcastSpec == Init /\ [][BroadcastNext]_vars /\ BroadcastFairness

\* ------------------------------------------------------------------------
\* Shutdown: Close closes every subscriber channel, leaves the subscribers
\* in the map, and closes eventChan, whose buffered events run still
\* receives.  A send on a closed channel and a close of a closed channel
\* panic, which ends the program (broadcaster.fault).
\* ------------------------------------------------------------------------

SendOnClosed == "send on closed channel"

CloseOfClosed == "close of closed channel"

Panic(b, what) == [b EXCEPT !.fault = what]

Running == broadcaster.fault = ""

\* the manager, a tool or a timer goroutine publishes an event
ShutPublish ==
    /\ Running
    /\ \E b \in IF broadcaster.closed
                 THEN { Panic(broadcaster, SendOnClosed) }
                 ELSE Publish(broadcaster, ResetEvents[1]) :
           broadcaster' = b
    /\ UNCHANGED <<manager, lastOp, unwind, ids, layers, timers, calls,
                   device, result, mu, dimLog, stackCap>>

\* for event := range b.eventChan: a closed channel still yields the
\* events it holds
ShutRunReceive ==
    /\ Running
    /\ RunReceive

\* run offers the event to the next subscriber in the map
ShutRunDeliver ==
    /\ Running
    /\ broadcaster.run.pc = "deliver"
    /\ \E id \in broadcaster.run.pending :
           broadcaster' = IF id \in broadcaster.closedSubs
                          THEN Panic(broadcaster, SendOnClosed)
                          ELSE Deliver(broadcaster, id)
    /\ UNCHANGED <<manager, lastOp, unwind, ids, layers, timers, calls,
                   device, result, mu, dimLog, stackCap>>

ShutRunUnlock ==
    /\ Running
    /\ RunUnlock

\* Subscribe closes the channel it finds under the id
ShutSubscribe(id) ==
    /\ Running
    /\ IF id \in broadcaster.closedSubs
       THEN /\ broadcaster.run.pc = "receive"
            /\ broadcaster' = Panic(broadcaster, CloseOfClosed)
            /\ UNCHANGED <<manager, lastOp, unwind, ids, layers, timers,
                           calls, device, result, mu, dimLog, stackCap>>
       ELSE Subscribe(id)

\* Unsubscribe closes the channel it finds under the id
ShutUnsubscribe(id) ==
    /\ Running
    /\ IF id \in broadcaster.closedSubs
       THEN /\ broadcaster.run.pc = "receive"
            /\ broadcaster' = Panic(broadcaster, CloseOfClosed)
            /\ UNCHANGED <<manager, lastOp, unwind, ids, layers, timers,
                           calls, device, result, mu, dimLog, stackCap>>
       ELSE Unsubscribe(id)

\* a subscriber takes an event; a closed channel still yields what it holds
ShutSubscriberReceive(id) ==
    /\ Running
    /\ SubscriberReceive(id)

\* Close, called once by the shutdown goroutine; b.mu.Lock() waits for run
\* to unlock
Close ==
    /\ Running
    /\ ~broadcaster.closed
    /\ broadcaster.run.pc = "receive"
    /\ broadcaster' = [broadcaster EXCEPT
                          !.closed = TRUE,
                          !.closedSubs = DOMAIN broadcaster.subscribers]
    /\ UNCHANGED <<manager, lastOp, unwind, ids, layers, timers, calls,
                   device, result, mu, dimLog, stackCap>>

ShutNext ==
    \/ ShutPublish
    \/ ShutRunReceive
    \/ ShutRunDeliver
    \/ ShutRunUnlock
    \/ \E id \in SubscriberIds : ShutSubscribe(id)
    \/ \E id \in SubscriberIds : ShutUnsubscribe(id)
    \/ \E id \in SubscriberIds : ShutSubscriberReceive(id)
    \/ Close

ShutSpec == Init /\ [][ShutNext]_vars

\* ------------------------------------------------------------------------
\* A client that fills every part of the manager (stack, base state,
\* brightness, whirl, morph, logo, top ring) and calls Reset
\* ------------------------------------------------------------------------

ResetPushEffect ==
    \E e \in PushInputs :
        /\ Len(manager.effectStack) < MaxPushes
        /\ manager' = PushEffect(manager, e.Name, e.Pattern, e.Context)
        /\ lastOp' = Op("PushEffect", Nil, <<>>)
        /\ UNCHANGED <<unwind, toolVars>>

ResetNext ==
    \/ ResetPushEffect
    \/ CallSetBaseState
    \/ CallUpdateBrightness
    \/ QueryUpdateWhirl
    \/ QueryUpdateMorph
    \/ StoreUpdateLogo
    \/ StoreUpdateTopRing
    \/ CallReset

ResetSpec == Init /\ [][ResetNext]_vars

\* ------------------------------------------------------------------------
\* The array behind the effect stack.  PopEffect returns &m.effectStack[i],
\* a pointer to a slot of the array; a goroutine that holds it (calls[c].ref:
\* the array, named by its length, and the slot) reads through it what the
\* slot holds at that moment (calls[c].val).  append writes into the array
\* while len < cap and otherwise moves the stack to a longer array, which
\* leaves the old one as it is.  The read takes no lock: next to the
\* interleavings below, a read that overlaps a write may also see part of
\* each entry.
\* ------------------------------------------------------------------------

\* the entries the goroutines push
AliasItems ==
    { EffectStackItem("X", "patternX", [perpetual |-> TRUE]),
      EffectStackItem("Y", "patternY", [perpetual |-> TRUE]) }

\* the capacity append gives a full slice of this element size
GrowCap(cap) == IF cap = 0 THEN 1 ELSE 2 * cap

Holds(c) == calls[c].pc = "holds"

\* PushEffect by any goroutine: the append and what it does to the slot
\* behind the pointers that are held
AliasPushEffect ==
    \E item \in AliasItems :
        LET len == Len(manager.effectStack)
            inPlace == len < stackCap
        IN  /\ len < MaxDepth
            /\ manager' = PushEffect(manager, item.Name, item.Pattern,
                                     item.Context)
            /\ stackCap' = IF inPlace THEN stackCap ELSE GrowCap(stackCap)
            /\ calls' = [c \in Callers |->
                            IF /\ Holds(c)
                               /\ inPlace
                               /\ calls[c].ref = [cap |-> stackCap,
                                                  idx |-> len + 1]
                            THEN [calls[c] EXCEPT !.val = item]
                            ELSE calls[c]]
            /\ UNCHANGED <<lastOp, unwind, ids, layers, timers, device,
                           result, mu, dimLog, broadcaster>>

\* PopEffect by goroutine c, which keeps the pointer it was handed
AliasPopEffect(c) ==
    /\ calls[c].pc = "idle"
    /\ LET r == PopEffect(manager) IN
           /\ manager' = r.m
           /\ IF r.ret = Nil
              THEN /\ result' = [tool |-> "PopEffect", text |-> "nil"]
                   /\ UNCHANGED calls
              ELSE /\ calls' = [calls EXCEPT ![c] =
                                   [pc |-> "holds",
                                    ref |-> [cap |-> stackCap,
                                             idx |-> Len(r.m.effectStack)],
                                    returned |-> r.ret[1],
                                    val |-> r.ret[1]]]
                   /\ UNCHANGED result
    /\ UNCHANGED <<lastOp, unwind, ids, layers, timers, device, mu, dimLog,
                   broadcaster, stackCap>>

\* goroutine c reads previousEffect.Name and previousEffect.Pattern
AliasRead(c) ==
    /\ Holds(c)
    /\ result' = [tool |-> "PopEffect", text |-> "read",
                  returned |-> calls[c].returned, read |-> calls[c].val]
    /\ calls' = [calls EXCEPT ![c] = Idle]
    /\ UNCHANGED <<manager, lastOp, unwind, ids, layers, timers, device, mu,
                   dimLog, broadcaster, stackCap>>

AliasNext ==
    \/ AliasPushEffect
    \/ \E c \in Callers : AliasPopEffect(c)
    \/ \E c \in Callers : AliasRead(c)

AliasSpec == Init /\ [][AliasNext]_vars

\* ------------------------------------------------------------------------
\* Effect stack: PopEffect and PushEffect
\* ------------------------------------------------------------------------

Depth == Len(manager.effectStack)

PopStep == lastOp'.op = "PopEffect"

\* C1: a PopEffect on a stack of two or more entries removes exactly the top
\* entry, sets state.Effect to the name of the entry that is then on top and
\* returns that entry (not the removed one); the entries below are unchanged.
C1_PopRestoresPrevious ==
    [][ (PopStep /\ Depth >= 2) =>
            /\ manager'.effectStack = SubSeq(manager.effectStack, 1, Depth - 1)
            /\ manager'.state.Effect = manager.effectStack[Depth - 1].Name
            /\ lastOp'.ret = <<manager.effectStack[Depth - 1]>>
            /\ manager'.baseState = manager.baseState ]_vars

C1_Witness ==
    /\ lastOp.op = "PopEffect"
    /\ Depth >= 2
    /\ lastOp.ret = <<manager.effectStack[Depth]>>

\* C2: a PopEffect on a stack of exactly one entry leaves the stack empty and
\* state.Effect "", and returns the entry __base_state__ carrying the base
\* state (context synthetic and isBase) when the base state is non-empty,
\* nil when it is empty.
C2_PopLastEntry ==
    [][ (PopStep /\ Depth = 1) =>
            /\ manager'.effectStack = <<>>
            /\ manager'.state.Effect = ""
            /\ manager.baseState = "" => lastOp'.ret = Nil
            /\ manager.baseState # "" =>
                  lastOp'.ret = << [Name |-> "__base_state__",
                                    Pattern |-> manager.baseState,
                                    Context |-> [synthetic |-> TRUE,
                                                 isBase |-> TRUE]] >> ]_vars

C2_Witness ==
    /\ lastOp.op = "PopEffect"
    /\ Depth = 0
    /\ manager.baseState = BasePattern
    /\ lastOp.ret # Nil
    /\ lastOp.ret[1].Pattern = BasePattern

\* C3: a PopEffect on the empty stack returns nil and changes nothing but
\* state.Effect, which it sets to ""; a second PopEffect right after it
\* changes nothing at all and returns nil again.
C3_PopEmptyIsNoOp ==
    [][ (PopStep /\ Depth = 0) =>
            /\ lastOp'.ret = Nil
            /\ manager' = [manager EXCEPT !.state.Effect = ""]
            /\ (lastOp.op = "PopEffect" /\ lastOp.ret = Nil) =>
                  (manager' = manager /\ lastOp' = lastOp) ]_vars

C3_Witness ==
    /\ lastOp.op = "PopEffect"
    /\ Depth = 0
    /\ manager.baseState # ""
    /\ lastOp.ret = Nil
    /\ manager.state.Effect = ""

\* C4: PushEffect appends exactly one entry, sets state.Effect to its name,
\* raises the depth by one whatever the depth is, and leaves the entries
\* already on the stack and the base state unchanged.
C4_PushAppends ==
    [][ lastOp'.op = "PushEffect" =>
            /\ GetEffectStackDepth(manager') = GetEffectStackDepth(manager) + 1
            /\ SubSeq(manager'.effectStack, 1, Depth) = manager.effectStack
            /\ manager'.effectStack[Depth + 1] \in PushInputs
            /\ manager'.state.Effect = manager'.effectStack[Depth + 1].Name
            /\ manager'.baseState = manager.baseState ]_vars

C4_Witness ==
    /\ lastOp.op = "PushEffect"
    /\ Depth >= 3
    /\ manager.state.Effect = "A"

\* C5: the stack unwinds in reverse push order whatever the kind of the
\* entries: after N pushes on the empty stack and k <= N-1 pops, the j-th pop
\* returned the (N-j)-th pushed entry, the depth is N-k, and after N-1 pops
\* GetCurrentEffect is the first pushed entry.
C5_UnwindsInReverse ==
    LET N == Len(unwind.pushed)
        k == Len(unwind.rets)
    IN  (unwind.ok /\ k <= N - 1) =>
            /\ \A j \in 1..k : unwind.rets[j] = <<unwind.pushed[N - j]>>
            /\ Depth = N - k
            /\ (N >= 1 /\ k = N - 1) =>
                  (Depth = 1 /\ GetCurrentEffect(manager) = <<unwind.pushed[1]>>)

C5_Witness ==
    /\ unwind.ok
    /\ unwind.pushed =
          << EffectStackItem("X", "patternX", [perpetual |-> TRUE]),
             EffectStackItem("__config__", "patternY", [synthetic |-> TRUE]),
             EffectStackItem("__config__", "patternZ", [synthetic |-> TRUE]),
             EffectStackItem("A", "patternA", [duration |-> 5000]) >>
    /\ Len(unwind.rets) = 3
    /\ unwind.rets[1][1].Pattern = "patternZ"
    /\ unwind.rets[2][1].Pattern = "patternY"
    /\ unwind.rets[3][1].Name = "X"

\* C6: in every reachable state, state.Effect is the name of the top stack
\* entry, or "" when the stack is empty.
C6_EffectIsTopOfStack ==
    manager.state.Effect =
        IF Depth = 0 THEN "" ELSE manager.effectStack[Depth].Name

\* C7: with a non-empty base state, every PopEffect that leaves the stack
\* empty, a PopEffect on the already empty stack included, returns the
\* synthetic base-state entry; nil is returned only without a base state.
C7_BaseStateWheneverEmpty ==
    (lastOp.op = "PopEffect" /\ Depth = 0) =>
        /\ manager.baseState # "" =>
              (lastOp.ret # Nil /\ lastOp.ret[1].Pattern = manager.baseState)
        /\ manager.baseState = "" => lastOp.ret = Nil

\* ------------------------------------------------------------------------
\* Completion goroutines of playEffect and configureLighting
\* ------------------------------------------------------------------------

\* the layers that some tool push made
LayerIds == 1..Len(layers)

\* the goroutine of layer n has not woken yet
Sleeping(n) == \E t \in timers : t.id = n /\ t.pc = "sleeping"

\* C8: the pop a timer makes when it wakes is unconditional and carries no
\* identity: whatever entry is on top then is removed, also when the timer's
\* own layer has been popped by stopEffect before, and what the pop returned
\* is what the goroutine re-sends (the clear command when it returned nil).
C8_TimerPopsWhateverIsOnTop ==
    [][ \A t \in timers :
          /\ (t.pc = "sleeping" /\ t \notin timers') =>
                /\ manager'.effectStack =
                      IF Depth = 0 THEN <<>>
                      ELSE SubSeq(manager.effectStack, 1, Depth - 1)
                /\ manager'.state.Effect =
                      IF Depth >= 2 THEN manager.effectStack[Depth - 1].Name
                      ELSE ""
                /\ \E w \in timers' :
                      /\ w.id = t.id
                      /\ w.pc = "woken"
                      /\ w.prev = IF Depth >= 2
                                  THEN <<manager.effectStack[Depth - 1]>>
                                  ELSE IF Depth = 1 /\ manager.baseState # ""
                                  THEN <<BaseStateItem(manager.baseState)>>
                                  ELSE Nil
          /\ (t.pc = "woken" /\ t \notin timers') =>
                \/ device' = device
                \/ t.prev # Nil /\ device' = t.prev[1].Pattern
                \/ t.prev = Nil /\ device' \in {PlayClearCommand, ClearCommand}
      ]_vars

\* stopEffect removed the timed layer n, the timer of n then removed another
\* layer k, found nothing beneath it and cleared the device
C8_Witness ==
    \E n, k \in LayerIds :
        /\ n # k
        /\ layers[n].timed
        /\ layers[n].removedBy.by = "stopEffect"
        /\ layers[k].removedBy = [by |-> "timer", timer |-> n]
        /\ \A t \in timers : t.id # n
        /\ Depth = 0
        /\ device = PlayClearCommand

\* C9: an entry pushed with perpetual = true is never removed by the pop of
\* a timer; only a stopEffect call removes it.
C9_PerpetualNeverExpires ==
    \A k \in LayerIds :
        layers[k].perpetual => layers[k].removedBy.by # "timer"

\* C10: once the timer of a timed entry has fired, the entry is no longer on
\* the stack, also when other entries were pushed above it before.
C10_TimedEntryGoneAfterTimer ==
    \A n \in LayerIds :
        (layers[n].timed /\ ~Sleeping(n)) =>
            \A i \in 1..Len(ids) : ids[i] # n

Atomic(op, m) ==
    CASE op.name = "Reset" -> Reset(m)
      [] op.name = "PushEffect" ->
            PushEffect(m, LockPushItem.Name, LockPushItem.Pattern,
                       LockPushItem.Context)
      [] op.name = "PopEffect" -> PopEffect(m).m
      [] op.name = "UpdateRingSegments" ->
            UpdateRingSegments(m, op.ring, op.colors, op.background)
      [] OTHER -> m

InBody(c) == calls[c].pc = "body"

\* C12: the operations of the manager are linearized by its lock: a writer
\* runs its writes with no reader and no other writer inside, what it leaves
\* is what the operation leaves when run alone, and what Snapshot or
\* BuildStateQuery returns is the committed state of one moment between its
\* call and its return, never a state a writer has half written.
C12_Linearizable ==
    /\ [](\A c \in Callers :
            /\ (InBody(c) /\ IsWriter(c)) =>
                  (mu.writer = c /\ mu.readers = {})
            /\ (InBody(c) /\ IsReader(c)) =>
                  (mu.writer = 0 /\ c \in mu.readers
                   /\ manager.state = Committed))
    /\ [][ \A c \in Callers :
             /\ (InBody(c) /\ IsWriter(c) /\ calls'[c].pc = "idle") =>
                   manager = Atomic(calls[c].op, calls[c].before)
             /\ (InBody(c) /\ IsReader(c) /\ calls'[c].pc = "idle") =>
                   Observation(calls[c].op, calls[c].view) \in
                       {Observation(calls[c].op, st) : st \in calls[c].seen}
         ]_vars

\* a reader has built its copy of a state two writers left, while a Reset
\* that was called in the meantime waits for the lock
C12_Witness ==
    \E c, d \in Callers :
        /\ InBody(c) /\ IsReader(c)
        /\ calls[c].k = Len(Reads(calls[c].op))
        /\ calls[c].view = manager.state
        /\ calls[c].view.Top # BlackRing
        /\ calls[c].view.Effect = "X"
        /\ calls[d].pc = "lock" /\ calls[d].op.name = "Reset"

\* ------------------------------------------------------------------------
\* Field writers and Reset
\* ------------------------------------------------------------------------

\* the dim-changed events among events
DimEvents(events) == SelectSeq(events, LAMBDA e : e.Type = "dim_changed")

\* C13: UpdateBrightness(level) publishes one dim-changed event carrying
\* level when level differs from the brightness held before the call and no
\* event otherwise; so the dim-changed events published so far are as many
\* as the calls that changed the brightness.
C13_DimEventIffChanged ==
    /\ [][ lastOp'.op = "UpdateBrightness" =>
             /\ manager'.state.Dim # manager.state.Dim =>
                   lastOp'.events = << [Type |-> "dim_changed",
                                        level |-> manager'.state.Dim] >>
             /\ manager'.state.Dim = manager.state.Dim =>
                   lastOp'.events = <<>>
             /\ dimLog'.events = dimLog.events \o lastOp'.events ]_vars
    /\ [](Len(DimEvents(dimLog.events)) = dimLog.changes)

\* UpdateBrightness(128) twice on a fresh manager: one event; the second
\* call published nothing
C13_Witness ==
    /\ lastOp = Op("UpdateBrightness", Nil, <<>>)
    /\ manager.state.Dim = 128
    /\ dimLog = [events |-> << [Type |-> "dim_changed", level |-> 128] >>,
                 changes |-> 1]

\* ------------------------------------------------------------------------
\* Rings and the state query
\* ------------------------------------------------------------------------

\* the ring named ring in LedState st
RingOf(st, ring) == IF ring = "top" THEN st.Top ELSE st.Bottom

OtherRing(ring) == IF ring = "top" THEN "bottom" ELSE "top"

\* C14: after UpdateRingSegments(ring, colors, background) on ring top or
\* bottom, slot i of that ring holds colors[i] when i < len(colors) and
\* colors[i] is non-empty, else the background when it is non-empty, else
\* what it held before; colours past the last slot are ignored and the other
\* ring, as every other field, is unchanged.
C14_RingSegmentsOverlay ==
    [][ (lastOp'.op = "UpdateRingSegments" /\ lastOp'.events # <<>>) =>
          LET ring == lastOp'.events[1].ring
              colors == lastOp'.events[1].segments
              background == lastOp'.events[1].background
              old == RingOf(manager.state, ring)
              new == RingOf(manager'.state, ring)
          IN  /\ ring \in {"top", "bottom"}
              /\ DOMAIN new = 1..RingSize
              /\ \A i \in 1..RingSize :
                    new[i] = IF i <= Len(colors) /\ colors[i] # ""
                             THEN colors[i]
                             ELSE IF background # "" THEN background
                             ELSE old[i]
              /\ RingOf(manager'.state, OtherRing(ring)) =
                    RingOf(manager.state, OtherRing(ring))
              /\ \A f \in DOMAIN manager.state \ {"Top", "Bottom"} :
                    manager'.state[f] = manager.state[f]
              /\ manager'.effectStack = manager.effectStack ]_vars

\* the bottom ring after red, nothing, blue on a green background, with a
\* top ring that had been set before
C14_Witness ==
    /\ lastOp.op = "UpdateRingSegments"
    /\ lastOp.events # <<>>
    /\ lastOp.events[1].ring = "bottom"
    /\ lastOp.events[1].segments = <<"ff0000", "", "0000ff">>
    /\ lastOp.events[1].background = "00ff00"
    /\ manager.state.Bottom =
          [i \in 1..RingSize |->
              IF i = 1 THEN "ff0000" ELSE IF i = 3 THEN "0000ff"
              ELSE "00ff00"]
    /\ manager.state.Top[1] = "ff0000"
    /\ manager.state.Top[4] = "00ff00"
    /\ manager.state.Top[6] = Black

\* the 6-hex-digit colours the clients pass, and the default
HexColors == {"ff0000", "00ff00", "0000ff", "ffffff", Black}

C16_ResetClearsKeepsBrightness ==
    [][ lastOp'.op = "Reset" =>
          /\ DOMAIN manager'.state.Top = 1..15
          /\ DOMAIN manager'.state.Bottom = 1..15
          /\ \A i \in 1..15 : /\ manager'.state.Top[i] = "000000"
                              /\ manager'.state.Bottom[i] = "000000"
          /\ manager'.state.LogoOn = FALSE
          /\ manager'.state.Effect = ""
          /\ manager'.state.Dim = manager.state.Dim
          /\ \A f \in DOMAIN manager.state
                     \ {"Top", "Bottom", "LogoOn", "Effect"} :
                manager'.state[f] = manager.state[f]
          /\ Len(lastOp'.events) = 2
          /\ \A i \in 1..2 : /\ lastOp'.events[i].Type = "ring_update"
                             /\ lastOp'.events[i].reset = TRUE
          /\ {lastOp'.events[i].ring : i \in 1..2} = {"top", "bottom"} ]_vars

\* Reset after the brightness had been changed to 128: everything is
\* cleared and the brightness is still 128
C16_Witness ==
    /\ lastOp.op = "Reset"
    /\ manager.state.Dim = 128
    /\ dimLog.changes = 1
    /\ manager.state.Top = BlackRing
    /\ manager.state.Bottom = BlackRing
    /\ ~manager.state.LogoOn
    /\ manager.state.Effect = ""

\* ------------------------------------------------------------------------
\* The state query
\* ------------------------------------------------------------------------

\* the texts a whirl field of whirlMs may carry: the stored value or its
\* device encoding
WhirlTexts(whirlMs) ==
    {ToString(whirlMs), ToString(ConvertWhirlToDevice(whirlMs))}

\* key=value when present, nothing otherwise
Field(present, key, value) ==
    IF present THEN << key \o "=" \o value >> ELSE <<>>

\* C17: BuildStateQuery returns, joined by "&" and in this order,
\* dim=<brightness>, top_init=1, top=<segments> if the segment string is
\* non-empty, top_whirl if the whirl is > 0, top_morph if a morph is set,
\* bottom_init=1, bottom, bottom_whirl and bottom_morph under the same
\* conditions, and logo=on or logo=off; dim, both init markers and logo are
\* there for every state.
C17_QueryFieldOrder ==
    [][ lastOp'.op = "BuildStateQuery" =>
          LET st == manager.state IN
          \E tw \in WhirlTexts(st.TopWhirlMs), bw \in WhirlTexts(st.BottomWhirlMs) :
             lastOp'.ret[1] =
                Join( Field(TRUE, "dim", ToString(st.Dim))
                      \o Field(TRUE, "top_init", "1")
                      \o Field(buildRingSegments(st.Top) # "", "top",
                               buildRingSegments(st.Top))
                      \o Field(st.TopWhirlMs > 0, "top_whirl", tw)
                      \o Field(st.TopMorph # Nil, "top_morph",
                               ConvertMorphToDevice(st.TopMorph))
                      \o Field(TRUE, "bottom_init", "1")
                      \o Field(buildRingSegments(st.Bottom) # "", "bottom",
                               buildRingSegments(st.Bottom))
                      \o Field(st.BottomWhirlMs > 0, "bottom_whirl", bw)
                      \o Field(st.BottomMorph # Nil, "bottom_morph",
                               ConvertMorphToDevice(st.BottomMorph))
                      \o Field(TRUE, "logo",
                               IF st.LogoOn THEN "on" ELSE "off"),
                      "&" ) ]_vars

\* the query of a state with top segments, top whirl, top morph, a bottom
\* morph only, brightness 128 and the logo on
C17_Witness ==
    /\ lastOp.op = "BuildStateQuery"
    /\ manager.state.Dim = 128
    /\ manager.state.LogoOn
    /\ manager.state.TopWhirlMs = 1000
    /\ manager.state.TopMorph # Nil
    /\ manager.state.BottomWhirlMs = 0
    /\ manager.state.BottomMorph # Nil
    /\ manager.state.Bottom = BlackRing
    /\ \E w \in WhirlTexts(1000) :
          lastOp.ret[1] =
             "dim=128&top_init=1&top=0|3|FF0000|3|2|00FF00&top_whirl=" \o w
             \o "&top_morph=150|7&bottom_init=1&bottom_morph=150|7&logo=on"

\* the animation fields of one ring in the device's tick-based encoding
DeviceAnimation(ring, whirlMs, morph) ==
    Field(whirlMs > 0, ring \o "_whirl", ToString(ConvertWhirlToDevice(whirlMs)))
    \o Field(morph # Nil, ring \o "_morph", ConvertMorphToDevice(morph))

\* C18: BuildStateQuery serializes both animation parameters in the
\* device's tick-based encoding: when whirlMs > 0 the top_whirl and
\* bottom_whirl values are ConvertWhirlToDevice(whirlMs), as the morph
\* values are ConvertMorphToDevice(morph).
C18_AnimationInDeviceUnits ==
    [][ lastOp'.op = "BuildStateQuery" =>
          LET st == manager.state IN
          lastOp'.ret[1] =
             Join( Field(TRUE, "dim", ToString(st.Dim))
                   \o Field(TRUE, "top_init", "1")
                   \o Field(buildRingSegments(st.Top) # "", "top",
                            buildRingSegments(st.Top))
                   \o DeviceAnimation("top", st.TopWhirlMs, st.TopMorph)
                   \o Field(TRUE, "bottom_init", "1")
                   \o Field(buildRingSegments(st.Bottom) # "", "bottom",
                            buildRingSegments(st.Bottom))
                   \o DeviceAnimation("bottom", st.BottomWhirlMs,
                                      st.BottomMorph)
                   \o Field(TRUE, "logo", IF st.LogoOn THEN "on" ELSE "off"),
                   "&" ) ]_vars

\* ------------------------------------------------------------------------
\* The segment codec
\* ------------------------------------------------------------------------

\* slot i (1-based) is lit: neither empty nor 000000
Lit(ring, i) == ring[i] # "" /\ ring[i] # "000000"

\* two slots hold the same colour; hex digits carry no case
SameColor(a, b) == ToUpper(a) = ToUpper(b)

\* the slots where a maximal run of one colour begins
RunStarts(ring) ==
    { i \in 1..15 : Lit(ring, i) /\ (i = 1 \/ ~SameColor(ring[i - 1], ring[i])) }

\* the last slot of the maximal run that begins at slot i
RunEnd(ring, i) ==
    CHOOSE j \in i..15 :
        /\ \A k \in i..j : SameColor(ring[k], ring[i])
        /\ (j = 15 \/ ~SameColor(ring[j + 1], ring[i]))

RECURSIVE RunTokens(_, _)
\* one token start|count|COLOR per maximal run, from slot i on
RunTokens(ring, i) ==
    IF i > 15 THEN <<>>
    ELSE (IF i \in RunStarts(ring)
          THEN << ToString(i - 1) \o "|" \o ToString(RunEnd(ring, i) - i + 1)
                  \o "|" \o ToUpper(ring[i]) >>
          ELSE <<>>)
         \o RunTokens(ring, i + 1)

\* the minimal run-length encoding of a ring
MinimalEncoding(ring) == Join(RunTokens(ring, 1), "|")

\* C19: the segment codec skips every slot that is empty or 000000 and
\* emits exactly one token start|count|COLOR (colour upper-cased) for each
\* maximal run of consecutive slots holding the same colour, joined by "|":
\* the top= and bottom= fields of every state query carry the minimal
\* run-length encoding of the ring (FF0000 x3, 00FF00 x2 gives
\* 0|3|FF0000|3|2|00FF00; an all-black ring gives the empty string, and
\* no field).
C19_CodecIsMinimalRunLength ==
    [][ lastOp'.op = "BuildStateQuery" =>
          LET st == manager.state IN
          lastOp'.ret[1] =
             Join( Field(TRUE, "dim", ToString(st.Dim))
                   \o Field(TRUE, "top_init", "1")
                   \o Field(MinimalEncoding(st.Top) # "", "top",
                            MinimalEncoding(st.Top))
                   \o Field(TRUE, "bottom_init", "1")
                   \o Field(MinimalEncoding(st.Bottom) # "", "bottom",
                            MinimalEncoding(st.Bottom))
                   \o Field(TRUE, "logo", IF st.LogoOn THEN "on" ELSE "off"),
                   "&" ) ]_vars

\* ------------------------------------------------------------------------
\* Decoding segments
\* ------------------------------------------------------------------------

\* C20: decoding start|count|COLOR writes COLOR only into the slots of
\* [start, start+count) that lie inside 0..14: for every start and count
\* that passes the tool's segment validation (start >= 15, start+count > 15
\* and negative start included) no index outside 0..14 is used and the
\* decode completes without fault.
C20_DecodeStaysInBounds ==
    [][ (lastOp'.op = "setRingPattern" /\ result'.text # "error") =>
          /\ result'.text = "ok"
          /\ ~result'.decoded[1].fault
          /\ result'.decoded[1].indexed \subseteq 0..14 ]_vars

\* a segment with three parts whose start and count are integers
WellFormed(segment) ==
    Len(segment) = 3 /\ segment[1].int # Nil /\ segment[2].int # Nil

\* the well-formed segments, by position, that cover slot j (0-based)
Covering(segments, j) ==
    { i \in 1..Len(segments) :
        /\ WellFormed(segments[i])
        /\ segments[i][1].int[1] <= j
        /\ j < segments[i][1].int[1] + segments[i][2].int[1] }

\* the ring that the well-formed segments alone decode to
WellFormedColors(segments, background) ==
    [j \in 1..15 |->
        IF Covering(segments, j - 1) # {}
        THEN LET last == CHOOSE i \in Covering(segments, j - 1) :
                            \A k \in Covering(segments, j - 1) : k <= i
             IN  segments[last][3].text
        ELSE IF background # "" THEN background ELSE "000000"]

\* C21: a segment that does not parse as three well-formed fields (wrong
\* number of fields, or a start or count that is no integer) is silently
\* skipped: the update does not fail, the segment writes no slot, and the
\* other segments of the update are applied.  Stated for the updates whose
\* well-formed segments start at 0 or above and whose send succeeds.
C21_MalformedSegmentSkipped ==
    [][ ( /\ lastOp'.op = "configureLighting"
          /\ result'.text # "send failed"
          /\ \A i \in 1..Len(result'.segments) :
                WellFormed(result'.segments[i]) =>
                   result'.segments[i][1].int[1] >= 0 ) =>
          /\ result'.text = "ok"
          /\ RingOf(manager'.state, result'.ring) =
                WellFormedColors(result'.segments, result'.background) ]_vars

\* ------------------------------------------------------------------------
\* Unknown ring names
\* ------------------------------------------------------------------------

\* C22: UpdateRingSegments, UpdateWhirl and UpdateMorph called with a ring
\* name other than "top" or "bottom" return and leave the whole LedState
\* (rings, whirl, morph, logo, brightness, effect) and the effect stack as
\* they were; nothing is published.
C22_UnknownRingIsNoOp ==
    [][ ( /\ lastOp'.op \in {"UpdateRingSegments", "UpdateWhirl", "UpdateMorph"}
          /\ lastOp'.ring \notin {"top", "bottom"} ) =>
          /\ manager'.state = manager.state
          /\ manager'.effectStack = manager.effectStack
          /\ manager' = manager
          /\ lastOp'.events = <<>> ]_vars

\* UpdateWhirl("middle", 1000) on a manager whose top ring is coloured and
\* whose whirls are both 0
C22_Witness ==
    /\ lastOp.op = "UpdateWhirl"
    /\ lastOp.ring = "middle"
    /\ manager.state.Top # BlackRing
    /\ manager.state.TopWhirlMs = 0
    /\ manager.state.BottomWhirlMs = 0
    /\ manager.state.TopMorph # Nil

\* ------------------------------------------------------------------------
\* Unit conversions
\* ------------------------------------------------------------------------

Abs(x) == IF x < 0 THEN -x ELSE x

\* C23 as stated: for every brightnessMs in [500, 5000] and fadeMs in
\* [200, 5000], ConvertMorphFromDevice(ConvertMorphToDevice(config)) yields a
\* brightnessMs within 50 ms and a fadeMs within 400 ms of the originals.
C23_MorphRoundTripWithin400 ==
    ( /\ lastOp.op = "ConvertMorphFromDevice"
      /\ lastOp.arg.BrightnessMs \in 500..5000
      /\ lastOp.arg.FadeMs \in 200..5000 ) =>
        /\ lastOp.ret.back # Nil
        /\ Abs(lastOp.ret.back[1].BrightnessMs - lastOp.arg.BrightnessMs) <= 50
        /\ Abs(lastOp.ret.back[1].FadeMs - lastOp.arg.FadeMs) <= 400

\* C23, amended: for every brightnessMs in [500, 5000] and fadeMs in
\* [200, 5000] the round trip yields a config whose brightnessMs is within
\* 50 ms of the original and whose fadeMs is 3333 / speed for the speed in
\* 1..10 the device format carries: within 400 ms of the original for fadeMs
\* in [200, 2066] and in [2933, 3733], and within 1667 ms for every fadeMs
\* of the range.
C23_MorphRoundTrip ==
    ( /\ lastOp.op = "ConvertMorphFromDevice"
      /\ lastOp.arg.BrightnessMs \in 500..5000
      /\ lastOp.arg.FadeMs \in 200..5000 ) =>
        /\ lastOp.ret.spec = lastOp.ret.text
        /\ lastOp.ret.back # Nil
        /\ Abs(lastOp.ret.back[1].BrightnessMs - lastOp.arg.BrightnessMs) <= 50
        /\ \E speed \in 1..10 : lastOp.ret.back[1].FadeMs = 3333 \div speed
        /\ Abs(lastOp.ret.back[1].FadeMs - lastOp.arg.FadeMs) <= 1667
        /\ (lastOp.arg.FadeMs \in 200..2066 \cup 2933..3733) =>
              Abs(lastOp.ret.back[1].FadeMs - lastOp.arg.FadeMs) <= 400

\* 500 ms bright, 5000 ms fade goes to 75|1 and comes back as 500 and 3333
C23_Witness ==
    /\ lastOp.op = "ConvertMorphFromDevice"
    /\ lastOp.arg = [BrightnessMs |-> 500, FadeMs |-> 5000]
    /\ lastOp.ret.spec = "75|1"
    /\ lastOp.ret.back = << [BrightnessMs |-> 500, FadeMs |-> 3333] >>

\* C24: ConvertWhirlToDevice(ms) is 0 for ms <= 0 and otherwise
\* round(256 - ms/15), at least 1 (15 -> 255, 1000 -> 189, 3000 -> 56, 7650
\* and above -> 1); ConvertDeviceWhirlToMs(ConvertWhirlToDevice(ms)) is the
\* multiple of 15 nearest to ms for 15 <= ms <= 3825 (1000 -> 1005,
\* 3000 -> 3000, 15 -> 15) and 3825 for every larger ms; device values
\* above 255 map back to 15 ms.
C24_WhirlConversion ==
    /\ lastOp.op = "ConvertWhirlToDevice" =>
          LET ms == lastOp.arg.Ms
              speed == lastOp.ret.Speed
              back == lastOp.ret.Ms
          IN  /\ ms <= 0 => speed = 0
              /\ ms > 0 =>
                    \E r \in (-400)..256 :
                       /\ 2 * Abs(15 * (256 - r) - ms) < 15
                       /\ speed = IF r < 1 THEN 1 ELSE r
              /\ ms = 15 => speed = 255 /\ back = 15
              /\ ms = 1000 => speed = 189 /\ back = 1005
              /\ ms = 3000 => speed = 56 /\ back = 3000
              /\ ms >= 7650 => speed = 1
              /\ (15 <= ms /\ ms <= 3825) =>
                    /\ back % 15 = 0
                    /\ 2 * Abs(back - ms) < 15
              /\ ms > 3825 => back = 3825
    /\ (lastOp.op = "ConvertDeviceWhirlToMs" /\ lastOp.arg.Speed > 255) =>
          lastOp.ret.Ms = 15

\* 1010 ms is 188.67 device units, rounded to 189, and comes back as 1005
C24_Witness ==
    /\ lastOp.op = "ConvertWhirlToDevice"
    /\ lastOp.arg.Ms = 1010
    /\ lastOp.ret = [Speed |-> 189, Ms |-> 1005]

\* r is x / y rounded to the nearest integer, halves away from zero (y # 0)
IsRounded(r, x, y) ==
    /\ 2 * Abs(r * y - x) <= Abs(y)
    /\ 2 * Abs(r * y - x) = Abs(y) => Abs(r) * Abs(y) > Abs(x)

\* C25: ConvertMorphToDevice never fails: for every non-nil config, with
\* any brightnessMs and fadeMs (0 and negative values included), it returns
\* "ticks|speed" with ticks = round(brightnessMs / 6.67) and speed =
\* round(3333 / fadeMs) clamped into 1..10 (for fadeMs = 0, where the
\* quotient is no number, a speed in 1..10); a nil config yields "".
C25_MorphToDeviceTotal ==
    lastOp.op = "ConvertMorphToDevice" =>
        IF lastOp.arg = Nil THEN lastOp.ret = ""
        ELSE LET b == lastOp.arg[1].BrightnessMs
                 f == lastOp.arg[1].FadeMs
             IN  \E ticks \in (-1001)..1001, speed \in 1..10 :
                    /\ IsRounded(ticks, 100 * b, 667)
                    /\ f # 0 =>
                          \E r \in (-3334)..3334 :
                             /\ IsRounded(r, 3333, f)
                             /\ speed = IF r < 1 THEN 1
                                        ELSE IF r > 10 THEN 10 ELSE r
                    /\ lastOp.ret = ToString(ticks) \o "|" \o ToString(speed)

\* a config with fadeMs = 0 and a negative brightnessMs: -150 ticks and a
\* speed of 1
C25_Witness ==
    /\ lastOp.op = "ConvertMorphToDevice"
    /\ lastOp.arg = << [BrightnessMs |-> -1000, FadeMs |-> 0] >>
    /\ lastOp.ret = "-150|1"

\* C26: publishing never stalls a state mutation.  Publish returns at once
\* whether or not a subscriber exists or empties its channel: the event is
\* queued, or dropped when eventChan holds 100 events, and nothing else
\* of the broadcaster changes; run passes over a subscriber whose channel
\* holds 10 events.  So a writer that holds Manager.mu always releases it.
C26_PublishNeverStalls ==
    /\ [][ /\ (\E c \in Writers : WriterPublish(c)) =>
                 /\ broadcaster'.eventChan =
                        IF broadcaster.eventChan < EventChanCap
                        THEN broadcaster.eventChan + 1 ELSE EventChanCap
                 /\ broadcaster'.subscribers = broadcaster.subscribers
                 /\ broadcaster'.run = broadcaster.run
                 /\ mu' = mu
            /\ \A id \in DOMAIN broadcaster.subscribers :
                  (/\ broadcaster.run.pc = "deliver"
                   /\ broadcaster'.run.pending = broadcaster.run.pending \ {id}
                   /\ id \in broadcaster.run.pending
                   /\ broadcaster.subscribers[id] = SubscriberChanCap) =>
                      /\ broadcaster'.subscribers = broadcaster.subscribers
                      /\ broadcaster'.eventChan = broadcaster.eventChan ]_vars
    /\ \A c \in Writers : (mu.writer = c) ~> (mu.writer = 0)

\* Reset has had its event dropped by a full eventChan while the only
\* subscriber's channel is full too, and still holds the lock
C26_Witness ==
    /\ lastOp.op = "Publish"
    /\ lastOp.ret = "dropped"
    /\ broadcaster.eventChan = EventChanCap
    /\ "test" \in DOMAIN broadcaster.subscribers
    /\ broadcaster.subscribers["test"] = SubscriberChanCap
    /\ mu.writer # 0

\* C27: a stopEffect call on a non-empty stack removes exactly one entry
\* with its PopEffect and then, unless the send fails, puts on the device
\* the pattern of the entry PopEffect returned or, when PopEffect returned
\* nil, the clear command, after which it sets both shadow rings to 000000
\* and the logo off; on an empty stack it reports that no effect is running
\* and changes neither the manager nor the device.
C27_StopEffectPopsOneAndRestores ==
    [][ \A c \in Callers :
          /\ (calls[c].pc = "stop_pop" /\ calls'[c].pc = "stop_send") =>
                Len(manager'.effectStack) = Len(manager.effectStack) - 1
          /\ (calls[c].pc = "stop_send" /\ calls'[c].pc = "stop_top") =>
                /\ calls[c].previousEffect = Nil
                /\ device' = ClearCommand
          /\ (/\ calls[c].pc = "stop_send"
              /\ calls'[c].pc = "idle"
              /\ result'.text = "stopped and resumed") =>
                /\ calls[c].previousEffect # Nil
                /\ device' = calls[c].previousEffect[1].Pattern
          /\ (calls[c].pc = "stop_top" /\ calls'[c].pc = "stop_bottom") =>
                manager'.state.Top = BlackRing
          /\ (calls[c].pc = "stop_bottom" /\ calls'[c].pc = "stop_logo") =>
                manager'.state.Bottom = BlackRing
          /\ (calls[c].pc = "stop_logo" /\ calls'[c].pc = "idle") =>
                ~manager'.state.LogoOn
          /\ (/\ calls[c].pc = "idle"
              /\ calls'[c].pc = "idle"
              /\ result' # result
              /\ result'.text = "no effect is running") =>
                /\ Len(manager.effectStack) = 0
                /\ manager' = manager
                /\ device' = device ]_vars

\* C28: configureLighting validates the whole request before it touches the
\* manager: whenever it returns an error (an invalid configuration, or the
\* send to the device failing) the shadow LedState and the effect stack are
\* as they were before the call and no timer has been started.
C28_ErrorLeavesManagerUntouched ==
    [][ ( /\ lastOp'.op = "configureLighting"
          /\ lastOp'.ret \in { <<"error">>, <<"send failed">> } ) =>
          /\ manager'.state = manager.state
          /\ manager'.effectStack = manager.effectStack
          /\ timers' = timers ]_vars

\* C29: every successful configureLighting call pushes exactly one
\* __config__ layer, and the pattern of that layer is the BuildStateQuery
\* serialization of the shadow state as it stands at the moment of the
\* push, also when several configureLighting calls run concurrently.
C29_ConfigLayerIsStateAtPush ==
    [][ \A c \in Callers :
          (calls[c].pc = "cfg_push" /\ calls'[c].pc = "idle") =>
             /\ Len(manager'.effectStack) = Len(manager.effectStack) + 1
             /\ Last(manager'.effectStack).Name = "__config__"
             /\ Last(manager'.effectStack).Pattern = BuildStateQuery(manager)
      ]_vars

\* C30: the shadow state is rolled back together with the device: when a
\* layer has been popped, by stopEffect or by a timer, and the pattern of
\* the __config__ layer the pop returned has been re-sent to the device,
\* BuildStateQuery of the shadow state equals the pattern re-sent.
C30_ShadowFollowsUnwinding ==
    [][ /\ \A c \in Callers :
              (/\ calls[c].pc = "stop_send"
               /\ calls'[c].pc = "idle"
               /\ result'.text = "stopped and resumed"
               /\ calls[c].previousEffect # Nil
               /\ calls[c].previousEffect[1].Name = "__config__") =>
                  /\ device' = calls[c].previousEffect[1].Pattern
                  /\ BuildStateQuery(manager') = device'
        /\ \A t \in timers :
              (/\ t.pc = "woken"
               /\ t \notin timers'
               /\ t.prev # Nil
               /\ t.prev[1].Name = "__config__"
               /\ device' = t.prev[1].Pattern) =>
                  BuildStateQuery(manager') = device' ]_vars

\* C31: the entry PopEffect returned denotes a fixed name and pattern: a
\* goroutine that reads its fields after the lock is released, while other
\* goroutines pop and push, reads the name and the pattern the entry had
\* when it was returned.
C31_ReturnedEntryIsFixed ==
    (result.tool = "PopEffect" /\ result.text = "read") =>
        /\ result.read.Name = result.returned.Name
        /\ result.read.Pattern = result.returned.Pattern

\* C32: stopEffect removes the entry it observed: the entry its PopEffect
\* takes from the stack is the entry its GetCurrentEffect read, the one
\* whose name it reports as stopped, also when a timer's pop or another
\* stopEffect runs between the two calls.
C32_StopRemovesWhatItObserved ==
    [][ \A c \in Callers :
          (/\ calls[c].pc = "stop_pop"
           /\ calls'[c].pc = "stop_send"
           /\ Len(manager.effectStack) > 0) =>
              /\ calls'[c].removedId = calls[c].currentId
              /\ Last(manager.effectStack).Name =
                    calls[c].currentEffect[1].Name ]_vars

\* C33: Reset leaves the effect stack (entries and depth), the base state,
\* the brightness, both whirl values and both morph values as they were;
\* it changes only the two rings, the logo and the effect name.
C33_ResetFrame ==
    [][ lastOp'.op = "Reset" =>
          /\ manager'.effectStack = manager.effectStack
          /\ Len(manager'.effectStack) = Len(manager.effectStack)
          /\ manager'.baseState = manager.baseState
          /\ manager'.state.Dim = manager.state.Dim
          /\ manager'.state.TopWhirlMs = manager.state.TopWhirlMs
          /\ manager'.state.BottomWhirlMs = manager.state.BottomWhirlMs
          /\ manager'.state.TopMorph = manager.state.TopMorph
          /\ manager'.state.BottomMorph = manager.state.BottomMorph
          /\ \A f \in DOMAIN manager.state
                     \ {"Top", "Bottom", "LogoOn", "Effect"} :
                manager'.state[f] = manager.state[f] ]_vars

\* Reset on a manager with two entries on the stack, a base state, changed
\* brightness, a top whirl and a bottom morph: all of them are still there
\* while the effect name, which the pushes had set, is empty
C33_Witness ==
    /\ lastOp.op = "Reset"
    /\ Len(manager.effectStack) = 2
    /\ manager.baseState = BasePattern
    /\ manager.state.Dim = 128
    /\ manager.state.TopWhirlMs = 1000
    /\ manager.state.BottomMorph # Nil
    /\ manager.state.Effect = ""
    /\ manager.state.Top = BlackRing

\* C34: shutting the broadcaster down is safe: after Close no goroutine
\* sends on a closed channel or closes a closed channel, whether events
\* are still in eventChan while subscribers exist, or Publish or
\* Unsubscribe is called after Close.
C34_ShutdownIsSafe == broadcaster.fault = ""

====
